---- MODULE Spec2Model ----
(***************************************************************************)
(* SuiviVentes: the storage facade (src/utils/storage.ts), the remote      *)
(* store behind it (src/utils/supabaseStorage.ts and the SQL migration),   *)
(* and the handlers of the application that drive them.                    *)
(*                                                                         *)
(* One action per handler.  Every await of a handler that can fail (a      *)
(* remote call, a localStorage write) takes its outcome from an oracle     *)
(* chosen with the action: a set of failing remote call sites and a set    *)
(* of failing local write sites, numbered in the order the handler         *)
(* reaches them.                                                           *)
(***************************************************************************)
EXTENDS Integers, Sequences, FiniteSets, TLC

VARIABLES
    localSales,         \* localStorage['suiviventes-data']
    localStock,         \* localStorage['suiviventes-stock']
    localMovements,     \* localStorage['suiviventes-stock-movements']
    readOnly,           \* localStorage['suiviventes-readonly'] = 'true'
    migrated,           \* localStorage['suiviventes-migrated'] = 'true'
    remoteSales,        \* table sales of the signed-in user
    remoteStock,        \* table stock_items
    remoteMovements,    \* table stock_movements
    user,               \* a session is authenticated
    migrationAttempted, \* AppContent state
    uuid,               \* number of identifiers handed out so far
    ops,                \* number of handlers run so far
    last,               \* the handler that ran last, its input and outcome
    file,               \* Import: the sheet the operator chose, and the machine
    previewData,        \* Import: the preview (React state)
    readOnlyMode        \* Admin: the state of the read-only button

vars == <<localSales, localStock, localMovements, readOnly, migrated,
          remoteSales, remoteStock, remoteMovements, user,
          migrationAttempted, uuid, ops, last, file, previewData,
          readOnlyMode>>

----------------------------------------------------------------------------
(* Bounds *)

MaxOps == 2         \* handlers that reach the stores in one behaviour
MaxQty == 2         \* largest quantity of one sale
MaxBatch == 2       \* largest number of sales in one import
SampleLen == 1      \* how many items of the sample stock are kept
MaxFaults == 1      \* failing calls (network or localStorage) per handler
MaxStock == 1       \* largest initial stock of a new product

----------------------------------------------------------------------------
(* Values *)

\* The product names in use.  "10" and "7" are names that are array indices
\* once used as object keys; the first two differ only by case.
ProductNames == {"Coca-Cola", "coca-cola", "10", "7"}

\* The names the handlers other than the import are exercised with.
MainNames == {"Coca-Cola", "coca-cola"}

\* String.prototype.toLowerCase on the names above and the sample names.
toLowerCase(s) ==
    CASE s = "Coca-Cola" -> "coca-cola"
      [] s = "Fanta Orange" -> "fanta orange"
      [] s = "Sandwich Jambon" -> "sandwich jambon"
      [] s = "Eau Minerale" -> "eau minerale"
      [] OTHER -> s

\* A property key that is a canonical array index ("7", "10").
IsArrayIndex(k) == k \in {"7", "10"}

\* The integer such a key denotes.
IndexValue(k) == IF k = "7" THEN 7 ELSE 10

\* Order of text values under ORDER BY name, taken as the byte order of the
\* first differing character: digits < upper case < lower case.
NameRank(s) ==
    CASE s = "10" -> 1
      [] s = "7" -> 2
      [] s = "Coca-Cola" -> 3
      [] s = "Eau Minerale" -> 4
      [] s = "Fanta Orange" -> 5
      [] s = "Sandwich Jambon" -> 6
      [] OTHER -> 7

\* Identifiers: crypto.randomUUID() / gen_random_uuid() give the positive
\* integers in turn; the sample stock's ids '1', '2', ... (not UUIDs) are
\* the negative integers -1, -2, ...
IsUuid(id) == id > 0

Sale(id, name, qty) == [id |-> id, productName |-> name, quantity |-> qty]

\* The alert threshold of a product: the default of the product form, of the
\* sample stock and of the column alert_threshold.
AlertThreshold == 5

StockItem(id, name, cur, init) ==
    [id |-> id, name |-> name, currentStock |-> cur, initialStock |-> init,
     alertThreshold |-> AlertThreshold]

StockMovement(id, pid, type, qty, reason) ==
    [id |-> id, productId |-> pid, type |-> type, quantity |-> qty,
     reason |-> reason]

\* generateSampleStock, cut to its first SampleLen items.
FullSampleStock ==
    << StockItem(-1, "Fanta Orange", 48, 100),
       StockItem(-2, "Coca-Cola", 77, 150),
       StockItem(-3, "Sandwich Jambon", 35, 80),
       StockItem(-4, "Eau Minerale", 113, 200) >>

generateSampleStock ==
    SubSeq(FullSampleStock, 1,
           IF SampleLen < Len(FullSampleStock) THEN SampleLen
           ELSE Len(FullSampleStock))

----------------------------------------------------------------------------
(* Sequences *)

Range(s) == {s[i] : i \in 1..Len(s)}

RECURSIVE SumQty(_)
SumQty(s) == IF s = <<>> THEN 0 ELSE Head(s).quantity + SumQty(Tail(s))

\* Array.prototype.map replacing the elements with a given id.
ReplaceById(s, x) == [i \in 1..Len(s) |-> IF s[i].id = x.id THEN x ELSE s[i]]

\* Array.prototype.filter dropping the elements with a given id.
RemoveById(s, id) == SelectSeq(s, LAMBDA e : e.id # id)

Ids(s) == {s[i].id : i \in 1..Len(s)}

\* Insertion of x into a list sorted by NameRank (stable).
RECURSIVE InsertByName(_, _)
InsertByName(s, x) ==
    IF s = <<>> THEN <<x>>
    ELSE IF NameRank(x.name) < NameRank(Head(s).name) THEN <<x>> \o s
    ELSE <<Head(s)>> \o InsertByName(Tail(s), x)

RECURSIVE SortByName(_)
SortByName(s) ==
    IF s = <<>> THEN <<>>
    ELSE InsertByName(SortByName(SubSeq(s, 1, Len(s) - 1)), s[Len(s)])

----------------------------------------------------------------------------
(* The remote store: tables, constraints and the trigger of the migration  *)
(* 20250607032132_shrill_hill.sql.  A statement either applies as a whole  *)
(* or fails and changes nothing.                                           *)

\* update_stock_on_sale: AFTER INSERT ON sales FOR EACH ROW.  The items
\* whose name equals the sale's product name lose the quantity sold, and
\* one 'out' movement is inserted per such item.
update_stock_on_sale(w, row) ==
    LET hit == SelectSeq(w.rk, LAMBDA it : it.name = row.productName)
    IN [w EXCEPT
          !.rk = [i \in 1..Len(w.rk) |->
                    IF w.rk[i].name = row.productName
                    THEN [w.rk[i] EXCEPT !.currentStock = @ - row.quantity]
                    ELSE w.rk[i]],
          !.rm = w.rm \o
                 [j \in 1..Len(hit) |->
                    StockMovement(w.uid + j, hit[j].id, "out", row.quantity,
                                  [kind |-> "Sale #", n |-> row.id])],
          !.uid = w.uid + Len(hit)]

\* The sales that carry their amounts (those of the import screen): the
\* total in thousandths of a euro, the unit price as a fraction of them.
HasAmounts(row) == "totalAmount" \in DOMAIN row

\* A fraction num/den of thousandths (num >= 0) as decimal(10,2) stores it:
\* rounded to the cent, half up.
RoundToCents(num, den) == ((2 * num + 10 * den) \div (20 * den)) * 10

\* The row as the table keeps it: unit_price and total_amount are
\* decimal(10,2).
StoredSale(row) ==
    IF HasAmounts(row)
    THEN [row EXCEPT
            !.totalAmount = RoundToCents(@, 1),
            !.unitPrice = [num |-> RoundToCents(@.num, @.den), den |-> 1]]
    ELSE row

RECURSIVE InsertSaleRows(_, _)
InsertSaleRows(w, rows) ==
    IF rows = <<>> THEN w
    ELSE InsertSaleRows(
           update_stock_on_sale([w EXCEPT
                                   !.rs = Append(w.rs, StoredSale(Head(rows)))],
                                Head(rows)),
           Tail(rows))

\* INSERT INTO sales: primary key on id, CHECK (quantity > 0),
\* CHECK (unit_price >= 0), CHECK (total_amount >= 0).
SalesInsertable(w, rows) ==
    /\ \A i \in 1..Len(rows) :
         /\ IsUuid(rows[i].id)
         /\ rows[i].quantity > 0
         /\ HasAmounts(rows[i]) =>
              rows[i].unitPrice.num >= 0 /\ rows[i].totalAmount >= 0
         /\ rows[i].id \notin Ids(w.rs)
    /\ \A i, j \in 1..Len(rows) : rows[i].id = rows[j].id => i = j

\* INSERT INTO stock_items: primary key on id (a uuid), UNIQUE(name, user_id),
\* CHECK (initial_stock >= 0).
StockInsertable(w, rows) ==
    /\ \A i \in 1..Len(rows) :
         /\ IsUuid(rows[i].id)
         /\ rows[i].initialStock >= 0
         /\ rows[i].id \notin Ids(w.rk)
         /\ \A k \in 1..Len(w.rk) : w.rk[k].name # rows[i].name
    /\ \A i, j \in 1..Len(rows) :
         (rows[i].id = rows[j].id \/ rows[i].name = rows[j].name) => i = j

\* INSERT INTO stock_movements: primary key on id, product_id REFERENCES
\* stock_items(id), CHECK (quantity > 0).
MovementsInsertable(w, rows) ==
    /\ \A i \in 1..Len(rows) :
         /\ IsUuid(rows[i].id)
         /\ IsUuid(rows[i].productId)
         /\ rows[i].productId \in Ids(w.rk)
         /\ rows[i].quantity > 0
         /\ rows[i].id \notin Ids(w.rm)
    /\ \A i, j \in 1..Len(rows) : rows[i].id = rows[j].id => i = j

\* UPDATE stock_items ... WHERE id: UNIQUE(name, user_id) still applies.
StockUpdatable(w, item) ==
    \/ item.id \notin Ids(w.rk)
    \/ /\ item.initialStock >= 0
       /\ \A k \in 1..Len(w.rk) :
            w.rk[k].name = item.name => w.rk[k].id = item.id

\* DELETE FROM stock_items: the movements of the item go with it
\* (product_id ... ON DELETE CASCADE).
DeleteStockRow(w, id) ==
    [w EXCEPT !.rk = RemoveById(w.rk, id),
              !.rm = SelectSeq(w.rm, LAMBDA m : m.productId # id)]

----------------------------------------------------------------------------
(* supabaseStorage.ts: each operation returns the store after it and       *)
(* whether it threw.  net is the outcome of the operation's network calls  *)
(* (auth.getUser and the statement); a constraint violation throws too.    *)

Done(w) == [w |-> w, err |-> FALSE]
Threw(w) == [w |-> w, err |-> TRUE]

addSaleToSupabase(w, sale, net) ==
    IF net /\ SalesInsertable(w, <<sale>>)
    THEN Done(InsertSaleRows(w, <<sale>>)) ELSE Threw(w)

updateSaleInSupabase(w, sale, net) ==
    IF net /\ sale.quantity > 0
    THEN Done([w EXCEPT !.rs = ReplaceById(w.rs, sale)]) ELSE Threw(w)

deleteSaleFromSupabase(w, id, net) ==
    IF net THEN Done([w EXCEPT !.rs = RemoveById(w.rs, id)]) ELSE Threw(w)

addStockItemToSupabase(w, item, net) ==
    IF net /\ StockInsertable(w, <<item>>)
    THEN Done([w EXCEPT !.rk = Append(w.rk, item)]) ELSE Threw(w)

updateStockItemInSupabase(w, item, net) ==
    IF net /\ StockUpdatable(w, item)
    THEN Done([w EXCEPT !.rk = ReplaceById(w.rk, item)]) ELSE Threw(w)

deleteStockItemFromSupabase(w, id, net) ==
    IF net THEN Done(DeleteStockRow(w, id)) ELSE Threw(w)

addStockMovementToSupabase(w, movement, net) ==
    IF net /\ MovementsInsertable(w, <<movement>>)
    THEN Done([w EXCEPT !.rm = Append(w.rm, movement)]) ELSE Threw(w)

addMultipleSalesToSupabase(w, sales, net) ==
    IF net /\ SalesInsertable(w, sales)
    THEN Done(InsertSaleRows(w, sales)) ELSE Threw(w)

addMultipleStockItemsToSupabase(w, items, net) ==
    IF net /\ StockInsertable(w, items)
    THEN Done([w EXCEPT !.rk = w.rk \o items]) ELSE Threw(w)

\* The import function of supabaseStorage.ts (same statement as
\* addMultipleSalesToSupabase).
importSalesToSupabaseRemote(w, sales, net) ==
    IF net /\ SalesInsertable(w, sales)
    THEN Done(InsertSaleRows(w, sales)) ELSE Threw(w)

\* migrateLocalStorageToSupabase: sales, then stock items, then movements;
\* the first failure throws and what was inserted before it stays.
migrateLocalStorageToSupabase(w, net1, net2, net3) ==
    LET a == IF Len(w.ls) > 0
             THEN addMultipleSalesToSupabase(w, w.ls, net1) ELSE Done(w)
        b == IF a.err THEN a
             ELSE IF Len(a.w.lk) > 0
             THEN addMultipleStockItemsToSupabase(a.w, a.w.lk, net2)
             ELSE a
        c == IF b.err THEN b
             ELSE IF Len(b.w.lm) > 0
             THEN IF net3 /\ MovementsInsertable(b.w, b.w.lm)
                  THEN Done([b.w EXCEPT !.rm = b.w.rm \o b.w.lm])
                  ELSE Threw(b.w)
             ELSE b
    IN c

----------------------------------------------------------------------------
(* storage.ts: the facade.  w is the state of both stores:                  *)
(*   ls, lk, lm   sales, stock and movements in localStorage                *)
(*   ro, mig      the read-only flag and the migrated flag                  *)
(*   rs, rk, rm   the remote tables                                         *)
(*   auth         the session is authenticated                              *)
(*   uid          identifiers handed out so far                             *)
(* net and disk arguments are the outcomes of the network calls and of the  *)
(* localStorage.setItem the operation makes.                                *)

\* shouldUseSupabase: isAuthenticated(), false when getUser fails.
shouldUseSupabase(w, net) == w.auth /\ net

getSales(w, net) == IF shouldUseSupabase(w, net) THEN w.rs ELSE w.ls

getStock(w, net) ==
    IF shouldUseSupabase(w, net) THEN SortByName(w.rk) ELSE w.lk

getStockMovements(w, net) == IF shouldUseSupabase(w, net) THEN w.rm ELSE w.lm

\* Both branches write localStorage; a refused write is logged, not thrown.
saveSales(w, sales, disk) ==
    IF w.ro THEN Threw(w)
    ELSE Done(IF disk THEN [w EXCEPT !.ls = sales] ELSE w)

saveStock(w, stock, disk) ==
    IF w.ro THEN Threw(w)
    ELSE Done(IF disk THEN [w EXCEPT !.lk = stock] ELSE w)

\* The remote attempt of a facade write: taken when authenticated, and a
\* throw of the remote operation is caught (fall back to localStorage).
RemoteFirst(w, r) == w.auth /\ ~r.err

addStockMovement(w, movement, net, netRead, disk) ==
    IF w.ro THEN Threw(w)
    ELSE LET r == addStockMovementToSupabase(w, movement, net)
         IN IF RemoteFirst(w, r) THEN r
            ELSE Done(IF disk
                      THEN [w EXCEPT !.lm =
                              Append(getStockMovements(w, netRead), movement)]
                      ELSE w)

MatchesName(item, name) == toLowerCase(item.name) = toLowerCase(name)

\* stock.find(item => item.name.toLowerCase() === key): the index of the first
\* item whose lower-cased name is key, 0 if there is none.
FindByName(stock, key) ==
    IF \E i \in 1..Len(stock) : toLowerCase(stock[i].name) = key
    THEN CHOOSE i \in 1..Len(stock) :
           /\ toLowerCase(stock[i].name) = key
           /\ \A j \in 1..(i - 1) : toLowerCase(stock[j].name) # key
    ELSE 0

\* The stock lowered by a sale without the movement that records it.
updateStockWithoutMovement(w, sale, netStock, diskStock, netMove, netMoves, diskMove) ==
    LET stock == getStock(w, netStock)
        i == FindByName(stock, toLowerCase(sale.productName))
    IN IF i = 0 THEN Done(w)
       ELSE saveStock(w, [stock EXCEPT ![i].currentStock = @ - sale.quantity],
                      diskStock)

\* updateStockFromSale: the first item matching the sale's product name
\* case-insensitively loses the quantity, then one 'out' movement is added.
updateStockFromSale(w, sale, netStock, diskStock, netMove, netMoves, diskMove) ==
    LET stock == getStock(w, netStock)
        i == FindByName(stock, toLowerCase(sale.productName))
    IN IF i = 0 THEN Done(w)
       ELSE LET a == saveStock(w,
                       [stock EXCEPT ![i].currentStock = @ - sale.quantity],
                       diskStock)
            IN IF a.err THEN a
               ELSE addStockMovement(
                      [a.w EXCEPT !.uid = @ + 1],
                      StockMovement(a.w.uid + 1, stock[i].id, "out",
                                    sale.quantity,
                                    [kind |-> "Vente #", n |-> sale.id]),
                      netMove, netMoves, diskMove)

\* An oracle: the remote call sites and the local write sites that fail.
NetOk(o, i) == i \notin o.r
DiskOk(o, i) == i \notin o.d

\* addSale.  Remote sites: 1 insert, 2 getSales, 3 getStock, 4 movement
\* insert, 5 getStockMovements.  Local sites: 1 sales, 2 stock, 3 movements.
addSale(w, sale, o) ==
    IF w.ro THEN Threw(w)
    ELSE LET r == addSaleToSupabase(w, sale, NetOk(o, 1))
         IN IF RemoteFirst(w, r) THEN r
            ELSE LET a == saveSales(w, Append(getSales(w, NetOk(o, 2)), sale),
                                    DiskOk(o, 1))
                 IN IF a.err THEN a
                    ELSE updateStockFromSale(a.w, sale, NetOk(o, 3),
                           DiskOk(o, 2), NetOk(o, 4), NetOk(o, 5), DiskOk(o, 3))

\* updateSale.  Remote sites: 1 update, 2 getSales.  Local site 1.
updateSale(w, sale, o) ==
    IF w.ro THEN Threw(w)
    ELSE LET r == updateSaleInSupabase(w, sale, NetOk(o, 1))
         IN IF RemoteFirst(w, r) THEN r
            ELSE saveSales(w, ReplaceById(getSales(w, NetOk(o, 2)), sale),
                           DiskOk(o, 1))

deleteSale(w, id, o) ==
    IF w.ro THEN Threw(w)
    ELSE LET r == deleteSaleFromSupabase(w, id, NetOk(o, 1))
         IN IF RemoteFirst(w, r) THEN r
            ELSE saveSales(w, RemoveById(getSales(w, NetOk(o, 2)), id),
                           DiskOk(o, 1))

addStockItem(w, item, o) ==
    IF w.ro THEN Threw(w)
    ELSE LET r == addStockItemToSupabase(w, item, NetOk(o, 1))
         IN IF RemoteFirst(w, r) THEN r
            ELSE saveStock(w, Append(getStock(w, NetOk(o, 2)), item),
                           DiskOk(o, 1))

updateStockItem(w, item, o) ==
    IF w.ro THEN Threw(w)
    ELSE LET r == updateStockItemInSupabase(w, item, NetOk(o, 1))
         IN IF RemoteFirst(w, r) THEN r
            ELSE saveStock(w, ReplaceById(getStock(w, NetOk(o, 2)), item),
                           DiskOk(o, 1))

deleteStockItem(w, id, o) ==
    IF w.ro THEN Threw(w)
    ELSE LET r == deleteStockItemFromSupabase(w, id, NetOk(o, 1))
         IN IF RemoteFirst(w, r) THEN r
            ELSE saveStock(w, RemoveById(getStock(w, NetOk(o, 2)), id),
                           DiskOk(o, 1))

----------------------------------------------------------------------------
(* updateStockFromSales: the stock reconciler of an imported batch.         *)

\* The lower-cased product names of a batch in the order first seen.
RECURSIVE FirstSeen(_, _)
FirstSeen(sales, seen) ==
    IF sales = <<>> THEN seen
    ELSE LET k == toLowerCase(Head(sales).productName)
         IN FirstSeen(Tail(sales),
                      IF k \in Range(seen) THEN seen ELSE Append(seen, k))

\* Insertion of an array-index key into a list ascending by value.
RECURSIVE InsertIndexKey(_, _)
InsertIndexKey(s, k) ==
    IF s = <<>> THEN <<k>>
    ELSE IF IndexValue(k) < IndexValue(Head(s)) THEN <<k>> \o s
    ELSE <<Head(s)>> \o InsertIndexKey(Tail(s), k)

RECURSIVE SortIndexKeys(_)
SortIndexKeys(s) ==
    IF s = <<>> THEN <<>>
    ELSE InsertIndexKey(SortIndexKeys(Tail(s)), Head(s))

\* Object.entries(stockUpdates): own keys that are array indices first, in
\* ascending numeric order, then the other keys in insertion order.
ObjectEntries(sales) ==
    LET keys == FirstSeen(sales, <<>>)
    IN SortIndexKeys(SelectSeq(keys, IsArrayIndex))
       \o SelectSeq(keys, LAMBDA k : ~IsArrayIndex(k))

\* stockUpdates[productKey].sales
GroupSales(sales, key) ==
    SelectSeq(sales, LAMBDA s : toLowerCase(s.productName) = key)

\* A loop over the product groups that does not skip: a group that matches no
\* item is charged to the first item of the stock.
RECURSIVE ReconcileGroupsNoSkip(_, _, _)
ReconcileGroupsNoSkip(acc, keys, sales) ==
    IF keys = <<>> THEN acc
    ELSE LET key == Head(keys)
             grp == GroupSales(sales, key)
             f == FindByName(acc.stock, key)
             i == IF f = 0 /\ Len(acc.stock) > 0 THEN 1 ELSE f
         IN ReconcileGroupsNoSkip(
              IF i = 0 THEN acc
              ELSE [stock |-> [acc.stock EXCEPT
                                 ![i].currentStock = @ - SumQty(grp)],
                    movements |-> Append(acc.movements,
                        StockMovement(acc.uid + 1, acc.stock[i].id, "out",
                                      SumQty(grp),
                                      [kind |-> "Import", n |-> Len(grp)])),
                    uid |-> acc.uid + 1],
              Tail(keys), sales)

\* The loop over the product groups: acc = [stock, movements, uid].
RECURSIVE ReconcileGroups(_, _, _)
ReconcileGroups(acc, keys, sales) ==
    IF keys = <<>> THEN acc
    ELSE LET key == Head(keys)
             grp == GroupSales(sales, key)
             i == FindByName(acc.stock, key)
         IN ReconcileGroups(
              IF i = 0 THEN acc
              ELSE [stock |-> [acc.stock EXCEPT
                                 ![i].currentStock = @ - SumQty(grp)],
                    movements |-> Append(acc.movements,
                        StockMovement(acc.uid + 1, acc.stock[i].id, "out",
                                      SumQty(grp),
                                      [kind |-> "Import", n |-> Len(grp)])),
                    uid |-> acc.uid + 1],
              Tail(keys), sales)

\* The loop saving the movements: movement j uses remote sites
\* netBase + 2j - 1 (insert) and netBase + 2j (read), local site diskBase + j.
RECURSIVE SaveMovements(_, _, _, _, _, _)
SaveMovements(w, movements, j, o, netBase, diskBase) ==
    IF j > Len(movements) THEN Done(w)
    ELSE LET a == addStockMovement(w, movements[j],
                     NetOk(o, netBase + 2 * j - 1), NetOk(o, netBase + 2 * j),
                     DiskOk(o, diskBase + j))
         IN IF a.err THEN a
            ELSE SaveMovements(a.w, movements, j + 1, o, netBase, diskBase)

\* Remote site netBase (getStock) and the sites of the movements after it;
\* local site diskBase (saveStock) and the sites of the movements after it.
updateStockFromSales(w, sales, o, netBase, diskBase) ==
    IF Len(sales) = 0 THEN Done(w)
    ELSE LET acc == ReconcileGroups(
                      [stock |-> getStock(w, NetOk(o, netBase)),
                       movements |-> <<>>, uid |-> w.uid],
                      ObjectEntries(sales), sales)
             a == saveStock(w, acc.stock, DiskOk(o, diskBase))
         IN IF a.err THEN a
            ELSE SaveMovements([a.w EXCEPT !.uid = acc.uid], acc.movements,
                               1, o, netBase, diskBase)

\* importSalesToSupabase of storage.ts.  Remote sites: 1 insert, 2 getSales,
\* 3.. the reconciler.  Local sites: 1 saveSales, 2.. the reconciler.
importSalesToSupabase(w, sales, o) ==
    IF Len(sales) = 0 THEN Done(w)
    ELSE LET r == addMultipleSalesToSupabase(w, sales, NetOk(o, 1))
         IN IF RemoteFirst(w, r) THEN r
            ELSE LET a == saveSales(w, getSales(w, NetOk(o, 2)) \o sales,
                                    DiskOk(o, 1))
                 IN IF a.err THEN a
                    ELSE updateStockFromSales(a.w, sales, o, 3, 2)

\* A migration that sets the migrated flag before it migrates, so that the
\* flag is set whether or not the migration goes through.
migrateDataToSupabaseFlagFirst(w, o) ==
    IF w.mig THEN Done(w)
    ELSE IF shouldUseSupabase(w, NetOk(o, 1))
    THEN migrateLocalStorageToSupabase([w EXCEPT !.mig = TRUE],
                                       NetOk(o, 2), NetOk(o, 3), NetOk(o, 4))
    ELSE Done(w)

\* migrateDataToSupabase.  Remote sites: 1 isAuthenticated, 2..4 the inserts.
migrateDataToSupabase(w, o) ==
    IF w.mig THEN Done(w)
    ELSE IF shouldUseSupabase(w, NetOk(o, 1))
    THEN LET r == migrateLocalStorageToSupabase(w, NetOk(o, 2), NetOk(o, 3),
                                                NetOk(o, 4))
         IN IF r.err THEN r ELSE Done([r.w EXCEPT !.mig = TRUE])
    ELSE Done(w)

isReadOnlyMode(w) == w.ro

setReadOnlyMode(w, enabled) == [w EXCEPT !.ro = enabled]

clearAllData(w) ==
    IF w.ro THEN Threw(w)
    ELSE Done([w EXCEPT !.ls = <<>>, !.lk = <<>>, !.lm = <<>>, !.mig = FALSE])

\* initializeStorage.  Remote sites: 1 getSales, 2 getStock.  Local sites:
\* 1 saveSales, 2 saveStock.  Whatever is thrown is caught and logged.
initializeStorage(w, o) ==
    LET a == IF Len(getSales(w, NetOk(o, 1))) = 0
             THEN saveSales(w, <<>>, DiskOk(o, 1)) ELSE Done(w)
    IN IF a.err THEN w
       ELSE IF Len(getStock(a.w, NetOk(o, 2))) = 0
       THEN saveStock(a.w, generateSampleStock, DiskOk(o, 2)).w
       ELSE a.w

----------------------------------------------------------------------------
(* Stock.tsx: the handlers of the stock screen.  Each works on the items   *)
(* the screen shows and awaits facade calls in turn; what a call throws    *)
(* is caught by the handler, which stops there.                            *)

\* The oracle seen by a call that starts after nr remote sites and nd local
\* sites of its handler.
ShiftOracle(o, nr, nd) ==
    [r |-> {i - nr : i \in {j \in o.r : j > nr}},
     d |-> {i - nd : i \in {j \in o.d : j > nd}}]

Reason(kind) == [kind |-> kind, n |-> 0]

\* updateStockItem(current := initial), then the 'in' movement of the
\* difference.  Remote sites nr+1..nr+4, local sites nd+1, nd+2.
RestockItem(w, item, kind, o, nr, nd) ==
    LET a == updateStockItem(w,
                 [item EXCEPT !.currentStock = item.initialStock],
                 ShiftOracle(o, nr, nd))
    IN IF a.err THEN a
       ELSE addStockMovement(
              [a.w EXCEPT !.uid = @ + 1],
              StockMovement(a.w.uid + 1, item.id, "in",
                            item.initialStock - item.currentStock,
                            Reason(kind)),
              NetOk(o, nr + 3), NetOk(o, nr + 4), DiskOk(o, nd + 2))

\* handleRestock: nothing to do when the item is at or above its initial
\* stock.
handleRestock(w, item, o) ==
    IF item.initialStock - item.currentStock <= 0 THEN Done(w)
    ELSE RestockItem(w, item, "Reapprovisionnement manuel", o, 0, 0)

\* The loop of handleRestockAll over the items in alert, from the k-th.
RECURSIVE RestockFrom(_, _, _, _)
RestockFrom(w, items, k, o) ==
    IF k > Len(items) THEN Done(w)
    ELSE LET a == RestockItem(w, items[k], "Reapprovisionnement automatique",
                              o, 4 * (k - 1), 2 * (k - 1))
         IN IF a.err THEN a ELSE RestockFrom(a.w, items, k + 1, o)

\* handleRestockAll: every item whose current stock is below its alert
\* threshold is restocked.
handleRestockAll(w, stockItems, o) ==
    RestockFrom(w,
        SelectSeq(stockItems, LAMBDA it : it.currentStock < it.alertThreshold),
        1, o)

\* The loop of handleResetAll: the movement of the difference (none when it
\* is 0), then updateStockItem(current := initial).
RECURSIVE ResetFrom(_, _, _, _)
ResetFrom(w, items, k, o) ==
    IF k > Len(items) THEN Done(w)
    ELSE LET item == items[k]
             q == item.initialStock - item.currentStock
             nr == 4 * (k - 1)
             nd == 2 * (k - 1)
             a == IF q # 0
                  THEN addStockMovement(
                         [w EXCEPT !.uid = @ + 1],
                         StockMovement(w.uid + 1, item.id,
                                       IF q > 0 THEN "in" ELSE "out",
                                       IF q < 0 THEN -q ELSE q,
                                       Reason("Reinitialisation manuelle")),
                         NetOk(o, nr + 1), NetOk(o, nr + 2), DiskOk(o, nd + 1))
                  ELSE Done(w)
             b == IF a.err THEN a
                  ELSE updateStockItem(a.w,
                         [item EXCEPT !.currentStock = item.initialStock],
                         ShiftOracle(o, nr + 2, nd + 1))
         IN IF b.err THEN b ELSE ResetFrom(b.w, items, k + 1, o)

handleResetAll(w, stockItems, o) == ResetFrom(w, stockItems, 1, o)

\* handleProductSubmit: an edited product is updated; a new product is
\* added, then its 'in' movement of the initial stock.  Remote sites 1..4,
\* local sites 1, 2.
handleProductSubmit(w, product, editing, o) ==
    IF editing THEN updateStockItem(w, product, o)
    ELSE LET a == addStockItem(w, product, o)
         IN IF a.err THEN a
            ELSE addStockMovement(
                   [a.w EXCEPT !.uid = @ + 1],
                   StockMovement(a.w.uid + 1, product.id, "in",
                                 product.initialStock, Reason("Stock initial")),
                   NetOk(o, 3), NetOk(o, 4), DiskOk(o, 2))

----------------------------------------------------------------------------
(* The values of a spreadsheet cell, as XLSX.utils.sheet_to_json hands     *)
(* them to the import screen, and the JavaScript conversions applied to    *)
(* them.  A string is the sequence of its characters.  Amounts are counted *)
(* in thousandths of a euro, quantities in units, dates in days since      *)
(* 1970-01-01.                                                             *)

Undefined == [t |-> "undefined"]
NaN == [t |-> "NaN"]
Number(v) == [t |-> "number", v |-> v]
String(s) == [t |-> "string", s |-> s]
\* A string that is only copied and compared (a product, a seller, ...):
\* kept whole.
Text(s) == [t |-> "text", s |-> s]
\* A Date object: its time value in minutes since the epoch, or invalid.
DateObject(valid, minutes) == [t |-> "Date", valid |-> valid, v |-> minutes]
InvalidDate == DateObject(FALSE, 0)

\* ToBoolean.
Truthy(c) ==
    CASE c.t = "undefined" -> FALSE
      [] c.t = "NaN" -> FALSE
      [] c.t = "number" -> c.v # 0
      [] c.t = "string" -> c.s # <<>>
      [] c.t = "text" -> c.s # ""
      [] OTHER -> TRUE

Digits == <<"0", "1", "2", "3", "4", "5", "6", "7", "8", "9">>

IsDigit(c) == \E i \in 1..10 : Digits[i] = c

DigitValue(c) == (CHOOSE i \in 1..10 : Digits[i] = c) - 1

\* White space as \s and trim() see it: the space and the no-break space.
IsSpace(c) == c \in {" ", "nbsp"}

RECURSIVE TrimStart(_)
TrimStart(s) ==
    IF s # <<>> /\ IsSpace(Head(s)) THEN TrimStart(Tail(s)) ELSE s

RECURSIVE TrimEnd(_)
TrimEnd(s) ==
    IF s # <<>> /\ IsSpace(s[Len(s)])
    THEN TrimEnd(SubSeq(s, 1, Len(s) - 1)) ELSE s

trim(s) == TrimEnd(TrimStart(s))

\* s.replace(/from/g, to) for a one-character pattern; to is a string.
RECURSIVE ReplaceAll(_, _, _)
ReplaceAll(s, from, to) ==
    IF s = <<>> THEN <<>>
    ELSE (IF Head(s) \in from THEN to ELSE <<Head(s)>>)
         \o ReplaceAll(Tail(s), from, to)

\* s.replace(from, to) with a string pattern of one character: the first
\* occurrence only.
RECURSIVE ReplaceFirst(_, _, _)
ReplaceFirst(s, from, to) ==
    IF s = <<>> THEN <<>>
    ELSE IF Head(s) = from THEN to \o Tail(s)
    ELSE <<Head(s)>> \o ReplaceFirst(Tail(s), from, to)

\* The longest prefix of s made of digits.
RECURSIVE LeadingDigits(_)
LeadingDigits(s) ==
    IF s # <<>> /\ IsDigit(Head(s))
    THEN <<Head(s)>> \o LeadingDigits(Tail(s)) ELSE <<>>

RECURSIVE DigitsValue(_)
DigitsValue(ds) ==
    IF ds = <<>> THEN 0
    ELSE 10 * DigitsValue(SubSeq(ds, 1, Len(ds) - 1)) + DigitValue(ds[Len(ds)])

\* The decimal digits of a natural number.
RECURSIVE DigitsOf(_)
DigitsOf(n) ==
    IF n < 10 THEN <<Digits[n + 1]>>
    ELSE DigitsOf(n \div 10) \o <<Digits[(n % 10) + 1]>>

\* value.toString() of a cell that is copied: the digits of a whole
\* number, the string itself.
ToStringOf(value) ==
    IF value.t # "number" THEN value.s
    ELSE IF value.v < 0 THEN <<"-">> \o DigitsOf(0 - value.v)
    ELSE DigitsOf(value.v)

\* The sign prefix of a numeric literal.
Signed(s) ==
    IF s # <<>> /\ Head(s) \in {"-", "+"}
    THEN [neg |-> Head(s) = "-", rest |-> Tail(s)]
    ELSE [neg |-> FALSE, rest |-> s]

\* The decimals of amounts the model keeps: three.
Scale == 1000

\* The first three decimals ds of a fraction, in thousandths.
Thousandths(ds) ==
    DigitsValue(SubSeq(ds \o <<"0", "0", "0">>, 1, 3))

\* The digits after the point of a numeric literal, if it has one.
Fraction(after) ==
    IF after # <<>> /\ Head(after) = "." THEN LeadingDigits(Tail(after))
    ELSE <<>>

\* The number of a literal: its sign, the digits before the point and after.
FloatOf(neg, int, frac) ==
    IF int = <<>> /\ frac = <<>> THEN NaN
    ELSE IF neg THEN Number(0 - (Scale * DigitsValue(int) + Thousandths(frac)))
    ELSE Number(Scale * DigitsValue(int) + Thousandths(frac))

FloatFrom(g, int) ==
    FloatOf(g.neg, int, Fraction(SubSeq(g.rest, Len(int) + 1, Len(g.rest))))

\* parseFloat, in thousandths: leading white space, a sign, digits, a point
\* and digits; NaN when there is no digit.  (Strings with more than three
\* decimals or an exponent are not among the inputs.)
parseFloat(str) ==
    FloatFrom(Signed(TrimStart(str)), LeadingDigits(Signed(TrimStart(str)).rest))

IntegerOf(neg, int) ==
    IF int = <<>> THEN NaN
    ELSE IF neg THEN Number(0 - DigitsValue(int)) ELSE Number(DigitsValue(int))

\* parseInt: leading white space, a sign, digits; NaN when there is none.
parseInt(str) ==
    IntegerOf(Signed(TrimStart(str)).neg,
              LeadingDigits(Signed(TrimStart(str)).rest))

\* Number(string), in units: the string is trimmed, '' is 0, a sign and
\* digits an integer, anything else NaN.  (Quantities with decimals are not
\* among the inputs.)
StringToNumber(trimmed) ==
    IF trimmed = <<>> THEN Number(0)
    ELSE IF LeadingDigits(Signed(trimmed).rest) = Signed(trimmed).rest
    THEN IntegerOf(Signed(trimmed).neg, Signed(trimmed).rest)
    ELSE NaN

\* Number(value) of a quantity cell.
ToNumber(c) ==
    CASE c.t = "number" -> c
      [] c.t = "string" -> StringToNumber(trim(c.s))
      [] c.t = "Date" -> IF c.valid THEN Number(c.v) ELSE NaN
      [] OTHER -> NaN

isNaN(c) == c.t = "NaN"

\* The same string with the long dash left in.
CleanAmountWithLongDash(s) ==
    ReplaceFirst(
        ReplaceAll(ReplaceAll(trim(s), {"euro"}, <<>>),
                   {" ", "nbsp"}, <<>>),
        ",", <<".">>)

\* The string parseAmount hands to parseFloat: trimmed, the long dash made
\* a minus, the euro sign and the white space removed, the first comma made
\* a point.  Characters outside ASCII are written by name: "euro", "ndash"
\* (the long dash), "nbsp", "e_acute", ...
CleanAmount(s) ==
    ReplaceFirst(
        ReplaceAll(ReplaceAll(ReplaceAll(trim(s), {"ndash"}, <<"-">>),
                              {"euro"}, <<>>),
                   {" ", "nbsp"}, <<>>),
        ",", <<".">>)

\* isNaN(parsed) ? 0 : parsed
OrZero(parsed) == IF isNaN(parsed) THEN Number(0) ELSE parsed

\* parseAmount (in thousandths).
parseAmount(value) ==
    IF value.t = "number" THEN value
    ELSE IF ~Truthy(value) THEN Number(0)
    ELSE OrZero(parseFloat(CleanAmount(value.s)))

\* The strings the validator accepts as a zero amount.
ZeroLiterals ==
    {<<"0">>, <<"0", ",", "0", "0">>, <<"0", ",", "0", "0", " ", "euro">>}

----------------------------------------------------------------------------
(* Dates.  A calendar date is [y, m, d]; a day number counts the days      *)
(* since 1970-01-01 in the proleptic Gregorian calendar.                   *)

IsLeap(y) == (y % 4 = 0 /\ y % 100 # 0) \/ y % 400 = 0

DaysInMonth(y, m) ==
    IF m = 2 THEN (IF IsLeap(y) THEN 29 ELSE 28)
    ELSE IF m \in {4, 6, 9, 11} THEN 30 ELSE 31

\* The days before the month mp of a year that starts in March (mp = 0).
DaysBefore(mp) == (153 * mp + 2) \div 5

\* The day number of day d of month m of the year that starts in March of
\* year yy; a cycle of 400 years has 146097 days, and 1970-01-01 is day
\* 719468 of the cycle that starts in March of year 0.
DaysOfMarchYear(yy, mp, d) ==
    (yy \div 400) * 146097
    + (yy % 400) * 365 + (yy % 400) \div 4 - (yy % 400) \div 100
    + DaysBefore(mp) + d - 1 - 719468

\* The day number of a calendar date (m in 1..12; d may lie outside the
\* month).
DayNumber(y, m, d) ==
    IF m <= 2 THEN DaysOfMarchYear(y - 1, m + 9, d)
    ELSE DaysOfMarchYear(y, m - 3, d)

\* The year of a 400-year cycle that its day doe (0..146096) falls in.
YearOfEra(doe) ==
    (doe - doe \div 1460 + doe \div 36524 - doe \div 146096) \div 365

\* The day of the March year yoe that day doe of the cycle is.
DayOfYear(doe, yoe) == doe - (365 * yoe + yoe \div 4 - yoe \div 100)

\* The calendar date of day doy of the March year yy.
DateInMarchYear(yy, doy, mp) ==
    [y |-> IF mp < 10 THEN yy ELSE yy + 1,
     m |-> IF mp < 10 THEN mp + 3 ELSE mp - 9,
     d |-> doy - DaysBefore(mp) + 1]

DateInEra(era, doe, yoe) ==
    DateInMarchYear(yoe + era * 400, DayOfYear(doe, yoe),
                    (5 * DayOfYear(doe, yoe) + 2) \div 153)

\* The calendar date of a day number.
CalendarDate(days) ==
    DateInEra((days + 719468) \div 146097, (days + 719468) % 146097,
              YearOfEra((days + 719468) % 146097))

MinutesPerDay == 1440

\* The largest time value of a Date: 100,000,000 days either side of the
\* epoch.
MaxDays == 100000000

\* A Date at the local midnight that starts day number days; tz is the
\* machine's offset from UTC in minutes, east positive.
LocalMidnight(days, tz) ==
    IF days > MaxDays \/ days < 0 - MaxDays THEN InvalidDate
    ELSE DateObject(TRUE, days * MinutesPerDay - tz)

\* A year 0..99 is 1900 + year.
FullYear(year) == IF year \in 0..99 THEN 1900 + year ELSE year

\* new Date(year, month, day): local midnight of the day, the month counted
\* from 0; months and days outside their range carry over; NaN in any
\* argument gives an invalid Date.
NewDate(year, month, day, tz) ==
    IF isNaN(year) \/ isNaN(month) \/ isNaN(day) THEN InvalidDate
    ELSE LocalMidnight(DayNumber(FullYear(year.v) + month.v \div 12,
                                 (month.v % 12) + 1, 1) + day.v - 1, tz)

\* date.toISOString().split('T')[0]: the UTC calendar date; an invalid Date
\* throws a RangeError.
ISODate(date) ==
    IF date.valid
    THEN [threw |-> FALSE, date |-> CalendarDate(date.v \div MinutesPerDay)]
    ELSE [threw |-> TRUE, date |-> [y |-> 0, m |-> 0, d |-> 0]]

\* The place of the first sep in s, 0 when there is none.
RECURSIVE indexOf(_, _, _)
indexOf(s, sep, from) ==
    IF from > Len(s) THEN 0
    ELSE IF s[from] = sep THEN from
    ELSE indexOf(s, sep, from + 1)

\* s.split(sep) for a one-character separator.
RECURSIVE split(_, _)
split(s, sep) ==
    IF indexOf(s, sep, 1) = 0 THEN <<s>>
    ELSE <<SubSeq(s, 1, indexOf(s, sep, 1) - 1)>>
         \o split(SubSeq(s, indexOf(s, sep, 1) + 1, Len(s)), sep)

includes(s, c) == indexOf(s, c, 1) # 0

\* Year, month and day of an ISO date string: what new Date makes of them.
\* The date-only form YYYY-MM-DD is UTC midnight of that day.  What the
\* ISO grammar does not cover is left to the engine: a day that the month
\* does not have (2024-02-31) and a month or day of one digit (2024-3-5)
\* are dates for V8 (the first carried over, the second at local midnight)
\* and invalid for others: engine.lenient says which.
DateOfISO(y, m, d, padded, engine) ==
    IF m \notin 1..12 \/ d \notin 1..31 THEN InvalidDate
    ELSE IF ~padded
    THEN (IF engine.lenient
          THEN NewDate(Number(y), Number(m - 1), Number(d), engine.tz)
          ELSE InvalidDate)
    ELSE IF d > DaysInMonth(y, m) /\ ~engine.lenient THEN InvalidDate
    ELSE DateObject(TRUE, DayNumber(y, m, d) * MinutesPerDay)

\* The parts of a string have the shape of an ISO date.
ISOShaped(p) ==
    /\ Len(p) = 3
    /\ Len(p[1]) = 4 /\ Len(p[2]) \in 1..2 /\ Len(p[3]) \in 1..2
    /\ \A i \in 1..3 : LeadingDigits(p[i]) = p[i]

DateOfParts(p, engine) ==
    IF ~ISOShaped(p) THEN InvalidDate
    ELSE DateOfISO(DigitsValue(p[1]), DigitsValue(p[2]), DigitsValue(p[3]),
                   Len(p[2]) = 2 /\ Len(p[3]) = 2, engine)

\* The first three letters of the month names that the legacy parser of V8
\* knows; of a longer word it reads only these.
EnglishMonths ==
    <<<<"j", "a", "n">>, <<"f", "e", "b">>, <<"m", "a", "r">>,
      <<"a", "p", "r">>, <<"m", "a", "y">>, <<"j", "u", "n">>,
      <<"j", "u", "l">>, <<"a", "u", "g">>, <<"s", "e", "p">>,
      <<"o", "c", "t">>, <<"n", "o", "v">>, <<"d", "e", "c">>>>

\* The month a word names for that parser, 0 when it names none.
MonthOfWord(word) ==
    IF \E k \in 1..12 : Len(word) >= 3 /\ SubSeq(word, 1, 3) = EnglishMonths[k]
    THEN CHOOSE k \in 1..12 : SubSeq(word, 1, 3) = EnglishMonths[k]
    ELSE 0

\* The parts of a string are a day, a word and a year ("15 mars 2024").
WordShaped(p) ==
    /\ Len(p) = 3
    /\ p[1] # <<>> /\ LeadingDigits(p[1]) = p[1]
    /\ p[3] # <<>> /\ LeadingDigits(p[3]) = p[3]

\* new Date of a day, a word and a year: no form of the ISO grammar, so
\* left to the engine.  V8 reads the word as a month name by its first
\* three letters and takes local midnight of the day; a strict engine
\* gives an invalid Date.  (No month written with a full stop is among the
\* inputs.)
DateOfWords(p, engine) ==
    IF WordShaped(p) /\ engine.lenient /\ MonthOfWord(p[2]) # 0
    THEN NewDate(Number(DigitsValue(p[3])), Number(MonthOfWord(p[2]) - 1),
                 Number(DigitsValue(p[1])), engine.tz)
    ELSE InvalidDate

\* new Date(string).  Every string among the inputs that is neither an ISO
\* date nor a day, a word and a year has no date in it and gives an invalid
\* Date in every engine.
DateParse(s, engine) ==
    IF ISOShaped(split(s, "-")) THEN DateOfParts(split(s, "-"), engine)
    ELSE DateOfWords(split(s, " "), engine)

\* The offset between the spreadsheet's day count and the epoch's.
ExcelEpoch == 25569

----------------------------------------------------------------------------
(* normalizeHeaders: from the headers of the sheet to the column each      *)
(* internal field is read from.                                            *)

UpperCase ==
    <<"A", "B", "C", "D", "E", "F", "G", "H", "I", "J", "K", "L", "M", "N",
      "O", "P", "Q", "R", "S", "T", "U", "V", "W", "X", "Y", "Z", "E_acute">>

LowerCase ==
    <<"a", "b", "c", "d", "e", "f", "g", "h", "i", "j", "k", "l", "m", "n",
      "o", "p", "q", "r", "s", "t", "u", "v", "w", "x", "y", "z", "e_acute">>

\* A character kept in its case.
KeepCase(c) == c

\* toLowerCase of a character.
LowerChar(c) ==
    IF \E i \in 1..Len(UpperCase) : UpperCase[i] = c
    THEN LowerCase[CHOOSE i \in 1..Len(UpperCase) : UpperCase[i] = c]
    ELSE c

\* The replacements of accented letters: [e_grave e_acute ...] -> e, ...
Unaccent(c) ==
    CASE c \in {"a_grave", "a_acute", "a_circ", "a_tilde", "a_uml", "a_ring"} -> "a"
      [] c \in {"e_grave", "e_acute", "e_circ", "e_uml"} -> "e"
      [] c \in {"i_grave", "i_acute", "i_circ", "i_uml"} -> "i"
      [] c \in {"o_grave", "o_acute", "o_circ", "o_tilde", "o_uml"} -> "o"
      [] c \in {"u_grave", "u_acute", "u_circ", "u_uml"} -> "u"
      [] c = "c_cedilla" -> "c"
      [] c = "n_tilde" -> "n"
      [] OTHER -> c

\* text.toLowerCase(), the accents replaced, [_\s-] removed.
NormalizeText(s) ==
    SelectSeq([i \in 1..Len(s) |-> Unaccent(LowerChar(s[i]))],
              LAMBDA c : c \notin {"_", " ", "nbsp", "-"})

\* a.includes(b) for strings.
IncludesString(a, b) ==
    \E i \in 1..(Len(a) - Len(b) + 1) : SubSeq(a, i, i + Len(b) - 1) = b

startsWith(s, prefix) ==
    Len(s) >= Len(prefix) /\ SubSeq(s, 1, Len(prefix)) = prefix

\* The internal fields, in the order of fieldMappings.
FieldOrder ==
    <<"register", "product", "type", "quantity", "amount", "seller", "date">>

\* fieldMappings: the known spellings of each field's header.
fieldMappings ==
    [ register |->
       <<<<"c", "a", "i", "s", "s", "e">>,
         <<"r", "e", "g", "i", "s", "t", "e", "r">>,
         <<"c", "a", "s", "h", "_", "r", "e", "g", "i", "s", "t", "e", "r">>,
         <<"t", "i", "l", "l">>,
         <<"p", "o", "s">>>>,
      product |->
       <<<<"p", "r", "o", "d", "u", "i", "t">>,
         <<"p", "r", "o", "d", "u", "c", "t">>,
         <<"i", "t", "e", "m">>,
         <<"a", "r", "t", "i", "c", "l", "e">>,
         <<"n", "o", "m">>,
         <<"n", "a", "m", "e">>>>,
      type |->
       <<<<"t", "y", "p", "e", "s">>,
         <<"t", "y", "p", "e">>,
         <<"c", "a", "t", "e", "g", "o", "r", "y">>,
         <<"c", "a", "t", "e", "g", "o", "r", "i", "e">>,
         <<"c", "a", "t", "e_acute", "g", "o", "r", "i", "e">>>>,
      quantity |->
       <<<<"q", "u", "a", "n", "t", "i", "t", "e_acute">>,
         <<"q", "u", "a", "n", "t", "i", "t", "e">>,
         <<"q", "u", "a", "n", "t", "i", "t", "y">>,
         <<"q", "t", "y">>,
         <<"q", "t", "e">>,
         <<"n", "b">>>>,
      amount |->
       <<<<"m", "o", "n", "t", "a", "n", "t">>,
         <<"a", "m", "o", "u", "n", "t">>,
         <<"t", "o", "t", "a", "l">>,
         <<"p", "r", "i", "x">>,
         <<"p", "r", "i", "c", "e">>,
         <<"v", "a", "l", "u", "e">>,
         <<"v", "a", "l", "e", "u", "r">>>>,
      seller |->
       <<<<"v", "e", "n", "d", "e", "u", "r">>,
         <<"s", "e", "l", "l", "e", "r">>,
         <<"s", "a", "l", "e", "s", "p", "e", "r", "s", "o", "n">>,
         <<"e", "m", "p", "l", "o", "y", "e", "e">>,
         <<"e", "m", "p", "l", "o", "y", "e">>,
         <<"e", "m", "p", "l", "o", "y", "e_acute">>,
         <<"s", "t", "a", "f", "f">>,
         <<"u", "s", "e", "r">>,
         <<"u", "t", "i", "l", "i", "s", "a", "t", "e", "u", "r">>>>,
      date |->
       <<<<"d", "a", "t", "e">>,
         <<"d", "a", "t", "e", "t", "i", "m", "e">>,
         <<"t", "i", "m", "e", "s", "t", "a", "m", "p">>,
         <<"t", "i", "m", "e">>>> ]

\* The spellings as the loop compares them: normalised like the header.
normalizedVariations ==
    [f \in DOMAIN fieldMappings |->
       [k \in 1..Len(fieldMappings[f]) |-> NormalizeText(fieldMappings[f][k])]]

\* variations.some(...): the header equals a spelling, contains one, or is
\* contained in one.
MatchesField(lowerHeader, field) ==
    \E k \in 1..Len(normalizedVariations[field]) :
       \/ lowerHeader = normalizedVariations[field][k]
       \/ IncludesString(lowerHeader, normalizedVariations[field][k])
       \/ IncludesString(normalizedVariations[field][k], lowerHeader)

\* The columns generated for unnamed spreadsheet columns.
IsPlaceholder(header) ==
    \/ startsWith(header, <<"U", "n", "n", "a", "m", "e", "d", ":">>)
    \/ startsWith(header, <<"_", "_", "E", "M", "P", "T", "Y">>)

\* The mapping before any header is seen: no field has a column (0).
NoMapping == [f \in {FieldOrder[i] : i \in 1..Len(FieldOrder)} |-> 0]

\* The fields, by their place in fieldMappings, that the header matches and
\* that have no column yet.
FreeFields(normalized, lowerHeader) ==
    {i \in 1..Len(FieldOrder) :
        /\ MatchesField(lowerHeader, FieldOrder[i])
        /\ normalized[FieldOrder[i]] = 0}

\* The first of the free fields takes column k (the loop breaks there).
TakeColumn(normalized, free, k) ==
    IF free = {} THEN normalized
    ELSE [normalized EXCEPT
            ![FieldOrder[CHOOSE i \in free : \A j \in free : i <= j]] = k]

\* One header: the first field, in the order of fieldMappings, that the
\* header matches and that has no column yet takes column k.
MapHeader(normalized, header, k) ==
    IF IsPlaceholder(header) THEN normalized
    ELSE TakeColumn(normalized,
                    FreeFields(normalized, NormalizeText(trim(header))), k)

\* headers.forEach: headers is the list of the columns' numbers that
\* Object.keys(data[0]) holds, columns the headers of the sheet.
RECURSIVE MapHeaders(_, _, _)
MapHeaders(normalized, columns, headers) ==
    IF headers = <<>> THEN normalized
    ELSE MapHeaders(MapHeader(normalized, columns[Head(headers)], Head(headers)),
                    columns, Tail(headers))

normalizeHeaders(columns, headers) == MapHeaders(NoMapping, columns, headers)

----------------------------------------------------------------------------
(* validateSalesData.  The sheet is [columns, rows]: the headers of its    *)
(* columns and, for each row, the cells under them (Undefined where the    *)
(* row object has no such key).                                            *)

\* Object.keys(data[0]): the columns the first row has a cell in.
ObjectKeys(row) ==
    SelectSeq([k \in 1..Len(row) |-> k], LAMBDA k : row[k].t # "undefined")

\* value !== undefined && value !== ''
IsPresent(value) ==
    ~ \/ value.t = "undefined"
      \/ value.t = "string" /\ value.s = <<>>
      \/ value.t = "text" /\ value.s = ""

\* detectAndMapColumns: the value of an internal field in a row; nothing
\* when the field has no column, the row no such key, or the value is ''.
MappedValue(row, headerMapping, field) ==
    IF headerMapping[field] = 0 THEN Undefined
    ELSE IF IsPresent(row[headerMapping[field]])
    THEN row[headerMapping[field]]
    ELSE Undefined

detectAndMapColumns(row, headerMapping) ==
    [f \in DOMAIN headerMapping |-> MappedValue(row, headerMapping, f)]

requiredFields == <<"product", "quantity", "amount", "date">>

\* The date of a row, as validateSalesData resolves it (lines 229-285):
\* [date] when resolved, invalid when the Date is invalid and the code sees
\* it, threw when a RangeError reaches the catch.
Resolved(date) == [kind |-> "date", date |-> date]
Unresolved(kind) == [kind |-> kind, date |-> [y |-> 0, m |-> 0, d |-> 0]]

FromParsed(parsedDate) ==
    IF ~parsedDate.valid THEN Unresolved("invalid")
    ELSE Resolved(ISODate(parsedDate).date)

\* parseInt(dateParts[1]) - 1
MonthIndex(month) == IF isNaN(month) THEN NaN ELSE Number(month.v - 1)

\* The three parts read day first.
DayFirst(dateParts, engine) ==
    NewDate(parseInt(dateParts[3]), MonthIndex(parseInt(dateParts[2])),
            parseInt(dateParts[1]), engine.tz)

\* A spreadsheet's day count (lines 234-237).
FromSerial(days) ==
    IF days > MaxDays \/ days < 0 - MaxDays THEN Unresolved("threw")
    ELSE Resolved(CalendarDate(days))

\* A string with '/' (lines 245-256).
FromSlashed(dateStr, dateParts, engine) ==
    IF Len(dateParts) = 3 THEN FromParsed(DayFirst(dateParts, engine))
    ELSE FromParsed(DateParse(dateStr, engine))

\* A string with '-' (lines 257-272).
FromDashed(dateStr, dateParts, engine) ==
    IF Len(dateParts) = 3 /\ Len(dateParts[1]) # 4
    THEN FromParsed(DayFirst(dateParts, engine))
    ELSE FromParsed(DateParse(dateStr, engine))

\* A string (lines 241-277).
FromString(dateStr, engine) ==
    IF includes(dateStr, "/")
    THEN FromSlashed(dateStr, split(dateStr, "/"), engine)
    ELSE IF includes(dateStr, "-")
    THEN FromDashed(dateStr, split(dateStr, "-"), engine)
    ELSE FromParsed(DateParse(dateStr, engine))

ResolveDate(dateValue, engine) ==
    CASE dateValue.t = "number" -> FromSerial(dateValue.v - ExcelEpoch)
      [] dateValue.t = "Date" ->
           IF ISODate(dateValue).threw THEN Unresolved("threw")
           ELSE Resolved(ISODate(dateValue).date)
      [] OTHER -> FromString(dateValue.s, engine)

\* The unit price of an imported sale: totalAmount / quantity, kept as the
\* fraction.
UnitPrice(totalAmount, quantity) ==
    IF quantity > 0 THEN [num |-> totalAmount, den |-> quantity]
    ELSE [num |-> 0, den |-> 1]

NotSpecified == "Non specifie"

\* mapped.seller?.toString() || 'Non specifie'
TextOr(value) == IF Truthy(value) THEN value.s ELSE NotSpecified

\* The Sale of a row, its amount and quantity converted.
SaleOf(id, date, mapped, totalAmount, quantity) ==
    [id |-> id, date |-> date, productName |-> ToStringOf(mapped.product),
     quantity |-> quantity, unitPrice |-> UnitPrice(totalAmount, quantity),
     totalAmount |-> totalAmount, seller |-> TextOr(mapped.seller),
     register |-> TextOr(mapped.register), category |-> TextOr(mapped.type)]

\* The Sale of a row (lines 287-305).
ImportedSale(id, date, mapped) ==
    SaleOf(id, date, mapped, parseAmount(mapped.amount).v,
           ToNumber(mapped.quantity).v)

\* The messages of the checks of lines 199-223, in their order.
RowErrors(mapped) ==
    (IF ~Truthy(mapped.date) THEN <<"Date manquante">> ELSE <<>>)
    \o (IF ~Truthy(mapped.product) THEN <<"Produit manquant">> ELSE <<>>)
    \o (IF ~Truthy(mapped.quantity) THEN <<"Quantite manquante">> ELSE <<>>)
    \o (IF ~Truthy(mapped.amount) THEN <<"Montant manquant">> ELSE <<>>)
    \o (IF Truthy(mapped.quantity) /\ isNaN(ToNumber(mapped.quantity))
        THEN <<"Quantite invalide">> ELSE <<>>)
    \o (IF /\ Truthy(mapped.amount)
           /\ parseAmount(mapped.amount).v = 0
           /\ mapped.amount.t = "string"
           /\ trim(mapped.amount.s) \notin ZeroLiterals
        THEN <<"Montant invalide">> ELSE <<>>)

RowResult(errors, sales) == [errors |-> errors, sales |-> sales]

\* A row without error messages: its date is resolved, and the row is its
\* Sale or the error of its date.
SaleOrDateError(resolved, id, mapped) ==
    IF resolved.kind = "invalid" THEN RowResult(<<"Date invalide">>, <<>>)
    ELSE IF resolved.kind = "threw"
    THEN RowResult(<<"Erreur de traitement des donnees">>, <<>>)
    ELSE RowResult(<<>>, <<ImportedSale(id, resolved.date, mapped)>>)

\* The row once its values are mapped: the error messages of the row, or
\* its Sale.
ValidateMapped(mapped, engine, id) ==
    IF RowErrors(mapped) # <<>> THEN RowResult(RowErrors(mapped), <<>>)
    ELSE SaleOrDateError(ResolveDate(mapped.date, engine), id, mapped)

\* One row of data.forEach.
ValidateRow(row, headerMapping, engine, id) ==
    ValidateMapped(detectAndMapColumns(row, headerMapping), engine, id)

\* The row of index i is reported as row i + 1 (the header is row 1).
RowError(r, index) ==
    IF r.errors # <<>> THEN <<[row |-> index + 1, errors |-> r.errors]>>
    ELSE <<>>

\* processedData.push(sale) or errors.push({row, errors}).
AddRow(acc, r, index) ==
    [sales |-> acc.sales \o r.sales,
     errors |-> acc.errors \o RowError(r, index)]

\* data.forEach from row index on: acc is {sales, errors} so far.
RECURSIVE ValidateRows(_, _, _, _, _, _)
ValidateRows(acc, rows, index, headerMapping, engine, uid) ==
    IF index > Len(rows) THEN acc
    ELSE ValidateRows(AddRow(acc,
                             ValidateRow(rows[index], headerMapping, engine,
                                         uid + Len(acc.sales) + 1),
                             index),
                      rows, index + 1, headerMapping, engine, uid)

\* requiredFields.filter(field => !headerMapping[field])
MissingFields(headerMapping) ==
    SelectSeq(requiredFields, LAMBDA f : headerMapping[f] = 0)

\* The rows under a header mapping (lines 163-318).
ValidateWith(data, headerMapping, engine, uid) ==
    IF MissingFields(headerMapping) # <<>>
    THEN [sales |-> <<>>,
          errors |-> <<[row |-> 1,
                        errors |-> <<"Colonnes manquantes dans le fichier">>
                                   \o MissingFields(headerMapping)]>>]
    ELSE ValidateRows([sales |-> <<>>, errors |-> <<>>], data.rows, 1,
                      headerMapping, engine, uid)

\* validateSalesData(data): uid is the number of identifiers handed out
\* before the call.
validateSalesData(data, engine, uid) ==
    IF data.rows = <<>> THEN [sales |-> <<>>, errors |-> <<>>]
    ELSE ValidateWith(data,
                      normalizeHeaders(data.columns, ObjectKeys(data.rows[1])),
                      engine, uid)

----------------------------------------------------------------------------
(* The duplicate detector and the preview of the import screen.            *)

Abs(x) == IF x < 0 THEN 0 - x ELSE x

\* The one-cent tolerance, in thousandths.
Tolerance == 10

\* The pairs of amounts of the model, one cent apart, whose difference in
\* IEEE-754 doubles is below 0.01: 10.01 - 10 = 0.00999999999999979 (while
\* 1.01 - 1 = 0.010000000000000009 and 0.02 - 0.01 = 0.01).
RoundedBelowTolerance == {{10000, 10010}}

\* Math.abs(a - b) < 0.01 on doubles.
WithinTolerance(a, b) ==
    \/ Abs(a - b) < Tolerance
    \/ Abs(a - b) = Tolerance /\ {a, b} \in RoundedBelowTolerance

\* The comparison of findDuplicates, on the seven fields.
SameSale(existingSale, newSale) ==
    /\ existingSale.date = newSale.date
    /\ existingSale.productName = newSale.productName
    /\ existingSale.quantity = newSale.quantity
    /\ WithinTolerance(existingSale.totalAmount, newSale.totalAmount)
    /\ existingSale.seller = newSale.seller
    /\ existingSale.register = newSale.register
    /\ existingSale.category = newSale.category

DuplicateInfo(item, isDuplicate) ==
    [item |-> item, isDuplicate |-> isDuplicate, shouldKeep |-> ~isDuplicate]

\* newSales.map(...): a candidate is a duplicate when some existing sale
\* compares equal to it.
FlagDuplicates(existingSales, newSales) ==
    [i \in 1..Len(newSales) |->
       DuplicateInfo(newSales[i],
                     \E k \in 1..Len(existingSales) :
                        SameSale(existingSales[k], newSales[i]))]

\* findDuplicates: existingSales is what getSales() of the facade returned.
findDuplicates(w, newSales, net) == FlagDuplicates(getSales(w, net), newSales)

\* previewData when there is no preview (null).
NoPreview == [type |-> "none", data |-> <<>>, invalidRows |-> <<>>]

\* The preview of validated rows.
PreviewOf(w, v, net) ==
    [type |-> "sales",
     data |-> findDuplicates(w, v.sales, net),
     invalidRows |-> v.errors]

\* processExcelFile for a sales import, on the rows of the sheet: the
\* preview it sets.  An empty sheet is notified and leaves the preview.
SalesPreview(w, data, engine, net) ==
    PreviewOf(w, validateSalesData(data, engine, w.uid), net)

\* toggleDuplicateKeep(index).
toggleDuplicateKeep(preview, index) ==
    [preview EXCEPT !.data[index].shouldKeep = ~@]

\* .map(info => info.item)
Items(infos) == [i \in 1..Len(infos) |-> infos[i].item]

\* previewData.data.filter(info => !info.isDuplicate).map(info => info.item)
itemsNotDuplicate(preview) ==
    Items(SelectSeq(preview.data, LAMBDA info : ~info.isDuplicate))

\* previewData.data.filter(info => info.shouldKeep).map(info => info.item)
itemsToImport(preview) ==
    Items(SelectSeq(preview.data, LAMBDA info : info.shouldKeep))

validItemsCount(preview) ==
    Len(SelectSeq(preview.data, LAMBDA info : info.shouldKeep))

\* The mutation of ConfirmDisabled that looks at the kept candidates only.
ConfirmDisabledWhenNoneKept(preview) == validItemsCount(preview) = 0

\* disabled={previewData.invalidRows.length > 0 || validItemsCount === 0}
ConfirmDisabled(preview) ==
    Len(preview.invalidRows) > 0 \/ validItemsCount(preview) = 0

\* After the insert r: on success the preview is closed, on an error it
\* stays.
AfterImport(r, preview) ==
    [w |-> r.w, err |-> r.err, preview |-> IF r.err THEN preview ELSE NoPreview]

\* handleImport for a sales preview: the kept items go to the remote store
\* in one statement.
handleImport(w, preview, net) ==
    AfterImport(importSalesToSupabaseRemote(w, itemsToImport(preview), net),
                preview)

\* No file chosen.
NoFile ==
    [data |-> [columns |-> <<>>, rows |-> <<>>],
     engine |-> [tz |-> 0, lenient |-> FALSE]]

----------------------------------------------------------------------------
(* The export of the sales to CSV.  The file is kept as the sheet that its *)
(* lines are: the headers, and under them the fields of each line as the   *)
(* text written (a number or a date a field holds is written in decimal    *)
(* digits, and the import reads the same value from the digits as from the *)
(* number).                                                                *)

\* An amount of cents with two decimals.
FixedOfCents(cents) ==
    DigitsOf(cents \div 100)
    \o <<".", Digits[((cents \div 10) % 10) + 1], Digits[(cents % 10) + 1]>>

\* value.toFixed(2) of a fraction num/den of thousandths (num >= 0).
toFixed(num, den) == FixedOfCents(RoundToCents(num, den) \div 10)

\* The short month names of the locale fr-FR.
MonthShort ==
    <<<<"j", "a", "n", "v", ".">>, <<"f", "e_acute", "v", "r", ".">>,
      <<"m", "a", "r", "s">>, <<"a", "v", "r", ".">>, <<"m", "a", "i">>,
      <<"j", "u", "i", "n">>, <<"j", "u", "i", "l", ".">>,
      <<"a", "o", "u_circ", "t">>, <<"s", "e", "p", "t", ".">>,
      <<"o", "c", "t", ".">>, <<"n", "o", "v", ".">>,
      <<"d", "e_acute", "c", ".">>>>

\* Intl.DateTimeFormat('fr-FR', {year: 'numeric', month: 'short',
\* day: 'numeric'}).format(date) of a calendar date: "15 mars 2024".
FormatLocal(date) ==
    DigitsOf(date.d) \o <<" ">> \o MonthShort[date.m] \o <<" ">>
    \o DigitsOf(date.y)

\* formatDate(dateString) of a stored date YYYY-MM-DD: new Date(dateString)
\* is midnight UTC of that day, and the format shows the day it is in the
\* local time of the machine.
formatDate(date, tz) ==
    FormatLocal(CalendarDate(
        (DayNumber(date.y, date.m, date.d) * MinutesPerDay + tz)
        \div MinutesPerDay))

\* The headers of the export.
ExportHeaders ==
    <<<<"D", "a", "t", "e">>,
      <<"C", "l", "i", "e", "n", "t">>,
      <<"P", "r", "o", "d", "u", "i", "t">>,
      <<"Q", "u", "a", "n", "t", "i", "t", "e_acute">>,
      <<"P", "r", "i", "x", " ", "u", "n", "i", "t", "a", "i", "r", "e">>,
      <<"M", "o", "n", "t", "a", "n", "t", " ", "t", "o", "t", "a", "l">>,
      <<"M", "e_acute", "t", "h", "o", "d", "e", " ", "d", "e", " ",
        "p", "a", "i", "e", "m", "e", "n", "t">>,
      <<"V", "e", "n", "d", "e", "u", "r">>,
      <<"C", "a", "i", "s", "s", "e">>,
      <<"C", "a", "t", "e_acute", "g", "o", "r", "i", "e">>,
      <<"N", "o", "t", "e", "s">>>>

\* One line of the export.  The sales of the model are imported ones:
\* their client is 'Client Import', their payment method 'Non specifie',
\* their notes are empty.
ExportRow(sale, tz) ==
    <<String(formatDate(sale.date, tz)),
      Text("Client Import"),
      Text(sale.productName),
      String(DigitsOf(sale.quantity)),
      String(toFixed(sale.unitPrice.num, sale.unitPrice.den)),
      String(toFixed(sale.totalAmount, 1)),
      Text(NotSpecified),
      Text(sale.seller),
      Text(sale.register),
      Text(sale.category),
      Text("")>>

\* generateCSV(sales), on a machine tz minutes east of UTC.
generateCSV(sales, tz) ==
    [columns |-> ExportHeaders,
     rows |-> [i \in 1..Len(sales) |-> ExportRow(sales[i], tz)]]

----------------------------------------------------------------------------
(* The errors of the remote operations.  Every function of                 *)
(* supabaseStorage runs its requests in one try block and, in its catch,   *)
(* throws new Error(handleSupabaseError(error)).                           *)

\* An error: its message, a string, or no message.
ErrorOf(message) == [message |-> String(message)]
NoMessage == [message |-> Undefined]

\* The user-facing messages.
SessionExpired ==
    <<"S", "e", "s", "s", "i", "o", "n", " ", "e", "x", "p", "i", "r",
      "e", "d", ".", " ", "P", "l", "e", "a", "s", "e", " ", "l", "o",
      "g", " ", "i", "n", " ", "a", "g", "a", "i", "n", ".">>
AccessDenied ==
    <<"A", "c", "c", "e", "s", "s", " ", "d", "e", "n", "i", "e", "d",
      ".", " ", "Y", "o", "u", " ", "c", "a", "n", " ", "o", "n", "l",
      "y", " ", "a", "c", "c", "e", "s", "s", " ", "y", "o", "u", "r",
      " ", "o", "w", "n", " ", "d", "a", "t", "a", ".">>
AlreadyExists ==
    <<"T", "h", "i", "s", " ", "i", "t", "e", "m", " ", "a", "l", "r",
      "e", "a", "d", "y", " ", "e", "x", "i", "s", "t", "s", ".">>
Referenced ==
    <<"C", "a", "n", "n", "o", "t", " ", "d", "e", "l", "e", "t", "e",
      " ", "t", "h", "i", "s", " ", "i", "t", "e", "m", " ", "a", "s", " ",
      "i", "t", " ", "i", "s", " ", "r", "e", "f", "e", "r", "e", "n",
      "c", "e", "d", " ", "b", "y", " ", "o", "t", "h", "e", "r", " ",
      "d", "a", "t", "a", ".">>
Unexpected ==
    <<"A", "n", " ", "u", "n", "e", "x", "p", "e", "c", "t", "e", "d",
      " ", "e", "r", "r", "o", "r", " ", "o", "c", "c", "u", "r", "r", "e",
      "d", ".", " ", "P", "l", "e", "a", "s", "e", " ", "t", "r", "y",
      " ", "a", "g", "a", "i", "n", ".">>

\* The messages it looks for.
KeyJWT == <<"J", "W", "T">>
KeyRLS ==
    <<"R", "o", "w", " ", "L", "e", "v", "e", "l", " ", "S", "e", "c",
      "u", "r", "i", "t", "y">>
KeyDuplicate ==
    <<"d", "u", "p", "l", "i", "c", "a", "t", "e", " ", "k", "e", "y">>
KeyForeign ==
    <<"f", "o", "r", "e", "i", "g", "n", " ", "k", "e", "y">>

\* The same messages with 'duplicate key' looked for first.
DuplicateKeyFirst(message) ==
    IF IncludesString(message, KeyDuplicate) THEN AlreadyExists
    ELSE IF IncludesString(message, KeyJWT) THEN SessionExpired
    ELSE IF IncludesString(message, KeyRLS) THEN AccessDenied
    ELSE IF IncludesString(message, KeyForeign) THEN Referenced
    ELSE message

\* handleSupabaseError(error), message being error.message, truthy.
MappedMessage(message) ==
    IF IncludesString(message, KeyJWT) THEN SessionExpired
    ELSE IF IncludesString(message, KeyRLS) THEN AccessDenied
    ELSE IF IncludesString(message, KeyDuplicate) THEN AlreadyExists
    ELSE IF IncludesString(message, KeyForeign) THEN Referenced
    ELSE message

handleSupabaseError(error) ==
    IF Truthy(error.message) THEN MappedMessage(error.message.s)
    ELSE Unexpected

\* The catch block of a remote operation: the Error it throws.
Rethrown(error) == ErrorOf(handleSupabaseError(error))

\* The functions of supabaseStorage.
RemoteOperations ==
    {"getSalesFromSupabase", "addSaleToSupabase", "updateSaleInSupabase",
     "deleteSaleFromSupabase", "getStockFromSupabase",
     "addStockItemToSupabase", "updateStockItemInSupabase",
     "deleteStockItemFromSupabase", "getStockMovementsFromSupabase",
     "addStockMovementToSupabase", "addMultipleSalesToSupabase",
     "addMultipleStockItemsToSupabase", "migrateLocalStorageToSupabase",
     "importSalesToSupabase"}

\* The requests of an operation a failure can come from.  The migration
\* has three: the inserts of the sales and of the stock, made by
\* addMultipleSalesToSupabase and addMultipleStockItemsToSupabase, and its
\* own insert of the movements; the others have one.
Requests(op) ==
    IF op = "migrateLocalStorageToSupabase" THEN 1..3 ELSE {1}

\* What the caller of a failed operation gets: the errors thrown to it and
\* the number of times the failed request was sent.  A failure inside a
\* function the migration calls reaches the migration's own catch as the
\* Error that function threw.
FailedCall(op, request, error) ==
    [thrown |-> IF op = "migrateLocalStorageToSupabase" /\ request < 3
                THEN <<Rethrown(Rethrown(error))>>
                ELSE <<Rethrown(error)>>,
     attempts |-> 1]

\* The errors of the backend in the model.
BackendMessages ==
    {<<"J", "W", "T", " ", "e", "x", "p", "i", "r", "e", "d">>,
     <<"i", "n", "v", "a", "l", "i", "d", " ", "J", "W", "T", ":", " ",
       "d", "u", "p", "l", "i", "c", "a", "t", "e", " ", "k", "e", "y">>,
     <<"R", "o", "w", " ", "L", "e", "v", "e", "l", " ", "S", "e", "c",
       "u", "r", "i", "t", "y", ":", " ", "f", "o", "r", "e", "i", "g",
       "n", " ", "k", "e", "y">>,
     <<"n", "e", "w", " ", "r", "o", "w", " ", "v", "i", "o", "l", "a",
       "t", "e", "s", " ", "r", "o", "w", "-", "l", "e", "v", "e", "l",
      " ", "s", "e", "c", "u", "r", "i", "t", "y", " ", "p", "o", "l", "i",
       "c", "y">>,
     <<"d", "u", "p", "l", "i", "c", "a", "t", "e", " ", "k", "e", "y",
      " ", "v", "a", "l", "u", "e", " ", "v", "i", "o", "l", "a", "t", "e",
       "s", " ", "f", "o", "r", "e", "i", "g", "n", " ", "k", "e", "y",
      " ", "c", "o", "n", "s", "t", "r", "a", "i", "n", "t">>,
     <<"v", "i", "o", "l", "a", "t", "e", "s", " ", "f", "o", "r", "e",
       "i", "g", "n", " ", "k", "e", "y", " ", "c", "o", "n", "s", "t",
       "r", "a", "i", "n", "t">>,
     <<"j", "w", "t", " ", "e", "x", "p", "i", "r", "e", "d">>,
     <<"F", "a", "i", "l", "e", "d", " ", "t", "o", " ", "f", "e", "t",
       "c", "h">>,
     <<"U", "s", "e", "r", " ", "n", "o", "t", " ", "a", "u", "t", "h",
       "e", "n", "t", "i", "c", "a", "t", "e", "d">>}

BackendErrors ==
    {NoMessage, ErrorOf(<<>>)} \cup {ErrorOf(m) : m \in BackendMessages}

----------------------------------------------------------------------------
(* The state machine *)

World ==
    [ls |-> localSales, lk |-> localStock, lm |-> localMovements,
     ro |-> readOnly, mig |-> migrated,
     rs |-> remoteSales, rk |-> remoteStock, rm |-> remoteMovements,
     auth |-> user, uid |-> uuid]

Commit(w) ==
    /\ localSales' = w.ls
    /\ localStock' = w.lk
    /\ localMovements' = w.lm
    /\ readOnly' = w.ro
    /\ migrated' = w.mig
    /\ remoteSales' = w.rs
    /\ remoteStock' = w.rk
    /\ remoteMovements' = w.rm
    /\ uuid' = w.uid

\* The oracles of a handler with nr remote call sites and nd local write
\* sites.  Without a session no remote call is made.
Oracles(nr, nd) ==
    {o \in [r : IF user THEN SUBSET (1..nr) ELSE {{}}, d : SUBSET (1..nd)] :
        Cardinality(o.r) + Cardinality(o.d) <= MaxFaults}

\* What a handler leaves behind: its name, its input, whether it threw,
\* whether its first remote attempt was made and failed (fb), and whether
\* the network and localStorage worked throughout.
Outcome(op, arg, err, fb, o) ==
    [op |-> op, arg |-> arg, err |-> err, fb |-> fb,
     net |-> (o.r = {}), disk |-> (o.d = {})]

NoFault == [r |-> {}, d |-> {}]

\* The quantities sales are recorded with: the smallest and the largest.
Quantities == {1, MaxQty}

SaleIdsKnown == Ids(localSales) \cup Ids(remoteSales)

ItemsKnown == Range(localStock) \cup Range(remoteStock)

\* A device on which the application was used without a session before:
\* one product was created and one sale of it recorded (addStockItem, then
\* addSale, both on the localStorage path).
UsedOffline ==
    [ls |-> <<Sale(2, "coca-cola", 1)>>,
     lk |-> <<StockItem(1, "Coca-Cola", 0, 1)>>,
     lm |-> <<StockMovement(3, 1, "out", 1, [kind |-> "Vente #", n |-> 2])>>,
     uid |-> 3]

FreshInstall == [ls |-> <<>>, lk |-> <<>>, lm |-> <<>>, uid |-> 0]

Init ==
    /\ \E d \in {FreshInstall, UsedOffline} :
         /\ localSales = d.ls
         /\ localStock = d.lk
         /\ localMovements = d.lm
         /\ uuid = d.uid
    /\ readOnly = FALSE
    /\ migrated = FALSE
    /\ remoteSales = <<>>
    /\ remoteStock = <<>>
    /\ remoteMovements = <<>>
    /\ user = FALSE
    /\ migrationAttempted = FALSE
    /\ ops = 0
    /\ last = Outcome("init", <<>>, FALSE, FALSE, NoFault)
    /\ file = NoFile
    /\ previewData = NoPreview
    /\ readOnlyMode = FALSE

\* AuthContext: a session starts.
SignIn ==
    /\ ops < MaxOps
    /\ ~user
    /\ user' = TRUE
    /\ UNCHANGED <<file, previewData, last, localSales, localStock, localMovements, readOnly, migrated,
                   remoteSales, remoteStock, remoteMovements,
                   migrationAttempted, uuid, ops, readOnlyMode>>

\* The session ends; AppContent's effect resets migrationAttempted.
SignOut ==
    /\ ops < MaxOps
    /\ user
    /\ user' = FALSE
    /\ migrationAttempted' = FALSE
    /\ UNCHANGED <<file, previewData, last, localSales, localStock, localMovements, readOnly, migrated,
                   remoteSales, remoteStock, remoteMovements, uuid, ops,
                   readOnlyMode>>

SetReadOnlyMode ==
    /\ ops < MaxOps
    /\ \E enabled \in BOOLEAN :
         /\ enabled # readOnly
         /\ Commit(setReadOnlyMode(World, enabled))
         /\ UNCHANGED <<user, migrationAttempted, ops, last, file, previewData,
                    readOnlyMode>>

\* A facade call: r is its result on w, fb whether its first remote attempt
\* was made and failed.
Facade(op, arg, w, r, fb, o) ==
    /\ ops' = ops + 1
    /\ Commit(r.w)
    /\ last' = Outcome(op, arg, r.err, fb, o)
    /\ UNCHANGED <<user, migrationAttempted, file, previewData, readOnlyMode>>

FellBack(w, r) == ~w.ro /\ w.auth /\ r.err

AddSale ==
    /\ ops < MaxOps
    /\ \E name \in MainNames, qty \in Quantities, o \in Oracles(5, 3) :
         LET sale == Sale(uuid + 1, name, qty)
             w == [World EXCEPT !.uid = uuid + 1]
         IN Facade("addSale", sale, w, addSale(w, sale, o),
                   FellBack(w, addSaleToSupabase(w, sale, NetOk(o, 1))), o)

UpdateSale ==
    /\ ops < MaxOps
    /\ \E id \in SaleIdsKnown, name \in MainNames, qty \in Quantities,
       o \in Oracles(2, 1) :
         LET sale == Sale(id, name, qty)
         IN Facade("updateSale", sale, World, updateSale(World, sale, o),
                   FellBack(World, updateSaleInSupabase(World, sale, NetOk(o, 1))), o)

DeleteSale ==
    /\ ops < MaxOps
    /\ \E id \in SaleIdsKnown, o \in Oracles(2, 1) :
         Facade("deleteSale", id, World, deleteSale(World, id, o),
                FellBack(World, deleteSaleFromSupabase(World, id, NetOk(o, 1))), o)

SaveSales ==
    /\ ops < MaxOps
    /\ \E sales \in {<<>>, localSales, remoteSales}, o \in Oracles(0, 1) :
         Facade("saveSales", sales, World,
                saveSales(World, sales, DiskOk(o, 1)), FALSE, o)

SaveStock ==
    /\ ops < MaxOps
    /\ \E stock \in {<<>>, localStock, SortByName(remoteStock)},
       o \in Oracles(0, 1) :
         Facade("saveStock", stock, World,
                saveStock(World, stock, DiskOk(o, 1)), FALSE, o)

AddStockItem ==
    /\ ops < MaxOps
    /\ \E name \in MainNames, init \in 0..MaxStock, o \in Oracles(2, 1) :
         LET item == StockItem(uuid + 1, name, init, init)
             w == [World EXCEPT !.uid = uuid + 1]
         IN Facade("addStockItem", item, w, addStockItem(w, item, o),
                   FellBack(w, addStockItemToSupabase(w, item, NetOk(o, 1))), o)

\* The product form (rename) and the restock handlers (current := initial).
UpdateStockItem ==
    /\ ops < MaxOps
    /\ \E old \in ItemsKnown, name \in MainNames, o \in Oracles(2, 1) :
      \E cur \in {old.currentStock, old.initialStock} :
         LET item == [old EXCEPT !.name = name, !.currentStock = cur]
         IN Facade("updateStockItem", item, World,
                   updateStockItem(World, item, o),
                   FellBack(World, updateStockItemInSupabase(World, item, NetOk(o, 1))), o)

DeleteStockItem ==
    /\ ops < MaxOps
    /\ \E old \in ItemsKnown, o \in Oracles(2, 1) :
         Facade("deleteStockItem", old.id, World,
                deleteStockItem(World, old.id, o),
                FellBack(World, deleteStockItemFromSupabase(World, old.id, NetOk(o, 1))), o)

AddStockMovement ==
    /\ ops < MaxOps
    /\ \E old \in ItemsKnown, type \in {"in", "out"}, qty \in Quantities,
          o \in Oracles(2, 1) :
         LET movement == StockMovement(uuid + 1, old.id, type, qty,
                                       [kind |-> "Manuel", n |-> 0])
             w == [World EXCEPT !.uid = uuid + 1]
         IN Facade("addStockMovement", movement, w,
                   addStockMovement(w, movement, NetOk(o, 1), NetOk(o, 2),
                                    DiskOk(o, 1)),
                   FellBack(w, addStockMovementToSupabase(w, movement, NetOk(o, 1))), o)

\* The batches of an import: 1..MaxBatch sales with fresh identifiers.
Batches(names) ==
    UNION { { [i \in 1..n |-> Sale(uuid + i, ns[i], qs[i])] :
                ns \in [1..n -> names], qs \in [1..n -> Quantities] } :
            n \in 1..MaxBatch }

ImportSales ==
    /\ ops < MaxOps
    /\ \E sales \in Batches(MainNames) :
       \E o \in Oracles(3 + 2 * Len(sales), 2 + Len(sales)) :
         LET w == [World EXCEPT !.uid = uuid + Len(sales)]
         IN Facade("importSales", sales, w, importSalesToSupabase(w, sales, o),
                   w.auth /\ addMultipleSalesToSupabase(w, sales, NetOk(o, 1)).err, o)

MigrateData ==
    /\ ops < MaxOps
    /\ \E o \in Oracles(4, 0) :
         Facade("migrateData", <<>>, World, migrateDataToSupabase(World, o),
                FALSE, o)

ClearAllData ==
    /\ ops < MaxOps
    /\ Facade("clearAllData", <<>>, World, clearAllData(World), FALSE, NoFault)

\* AppContent.initializeApp with a user: initializeStorage, then the
\* migration once per session (its error is caught).  Remote sites 1, 2 are
\* initializeStorage's, 3..6 the migration's.
InitializeApp ==
    /\ ops < MaxOps
    /\ user
    /\ \E o \in Oracles(6, 2) :
         LET a == initializeStorage(World, o)
             m == migrateDataToSupabase(a, [o EXCEPT !.r = {i - 2 : i \in o.r \ {1, 2}}])
             w == IF migrationAttempted THEN a ELSE m.w
         IN /\ ops' = ops + 1
            /\ Commit(w)
            /\ migrationAttempted' = TRUE
            /\ last' = Outcome("initializeApp", ~migrationAttempted, FALSE,
                               FALSE, o)
            /\ UNCHANGED <<user, file, previewData, readOnlyMode>>

\* Import.handleImport for sales: the kept candidates go to
\* importSalesToSupabase of supabaseStorage.ts; an error is caught and
\* notified.  Remote site 1.
HandleImport ==
    /\ ops < MaxOps
    /\ \E sales \in Batches(MainNames), o \in Oracles(1, 0) :
         LET w == [World EXCEPT !.uid = uuid + Len(sales)]
             r == importSalesToSupabaseRemote(w, sales, w.auth /\ NetOk(o, 1))
         IN /\ ops' = ops + 1
            /\ Commit(r.w)
            /\ last' = Outcome("handleImport", sales, r.err, r.err, o)
            /\ UNCHANGED <<user, migrationAttempted, file, previewData, readOnlyMode>>

Next ==
    \/ SignIn
    \/ SignOut
    \/ SetReadOnlyMode
    \/ AddSale
    \/ UpdateSale
    \/ DeleteSale
    \/ SaveSales
    \/ SaveStock
    \/ AddStockItem
    \/ UpdateStockItem
    \/ DeleteStockItem
    \/ AddStockMovement
    \/ ImportSales
    \/ MigrateData
    \/ ClearAllData
    \/ InitializeApp
    \/ HandleImport

Spec == Init /\ [][Next]_vars

----------------------------------------------------------------------------
(* The migration on its own: sessions, the application's initialisation,   *)
(* migrateDataToSupabase and clearAllData, from the same two devices.      *)

NextMigration ==
    \/ SignIn
    \/ SignOut
    \/ SetReadOnlyMode
    \/ MigrateData
    \/ ClearAllData
    \/ InitializeApp

SpecMigration == Init /\ [][NextMigration]_vars

----------------------------------------------------------------------------
(* The import of one batch, from every small stock.                        *)

\* The stock lists of up to two products, each with MaxStock units.  In
\* localStorage nothing keeps two products from having the same name, or
\* names that differ only by case (addStockItem, updateStockItem).
StockLists ==
    {<<>>}
    \cup {<<StockItem(1, a, MaxStock, MaxStock)>> : a \in ProductNames}
    \cup {<<StockItem(1, a, MaxStock, MaxStock),
            StockItem(2, b, MaxStock, MaxStock)>> :
              a \in ProductNames, b \in ProductNames}

\* The names of a stock list are pairwise different (UNIQUE(name, user_id)).
NamesUnique(stock) ==
    \A i, j \in 1..Len(stock) : stock[i].name = stock[j].name => i = j

\* Without a session the stock is in localStorage only; with a session it
\* was migrated, and is in both stores.
InitImport ==
    /\ localStock \in StockLists
    /\ user \in BOOLEAN
    /\ user => NamesUnique(localStock)
    /\ remoteStock = IF user THEN localStock ELSE <<>>
    /\ migrated = user
    /\ migrationAttempted = user
    /\ localSales = <<>>
    /\ localMovements = <<>>
    /\ remoteSales = <<>>
    /\ remoteMovements = <<>>
    /\ readOnly = FALSE
    /\ uuid = 2
    /\ ops = 0
    /\ last = Outcome("init", <<>>, FALSE, FALSE, NoFault)
    /\ file = NoFile
    /\ previewData = NoPreview
    /\ readOnlyMode = FALSE

\* importSalesToSupabase of the facade, once, with a batch over all names.
ImportBatch ==
    /\ ops = 0
    /\ \E sales \in Batches(ProductNames) :
       \E o \in Oracles(3 + 2 * Len(sales), 2 + Len(sales)) :
         LET w == [World EXCEPT !.uid = uuid + Len(sales)]
         IN Facade("importSales", sales, w, importSalesToSupabase(w, sales, o),
                   w.auth /\ addMultipleSalesToSupabase(w, sales, NetOk(o, 1)).err, o)

NextImport == ImportBatch

SpecImport == InitImport /\ [][NextImport]_vars

----------------------------------------------------------------------------
(* The stock screen, from every small stock.                               *)

\* The items the stock screen shows: loadData() = getStock().
stockItems == getStock(World, TRUE)

\* Up to two products with any current and initial stock up to MaxStock
\* (sales, edits and restocks move the two apart).
StockStates ==
    LET Levels == 0..MaxStock
    IN {<<>>}
       \cup {<<StockItem(1, "Coca-Cola", c, i)>> : c \in Levels, i \in Levels}
       \cup {<<StockItem(1, "Coca-Cola", c, i), StockItem(2, "7", d, j)>> :
                c \in Levels, i \in Levels, d \in Levels, j \in Levels}

InitStock ==
    /\ localStock \in StockStates
    /\ user \in BOOLEAN
    /\ remoteStock = IF user THEN localStock ELSE <<>>
    /\ migrated = user
    /\ migrationAttempted = user
    /\ localSales = <<>>
    /\ localMovements = <<>>
    /\ remoteSales = <<>>
    /\ remoteMovements = <<>>
    /\ readOnly = FALSE
    /\ uuid = 2
    /\ ops = 0
    /\ last = Outcome("init", <<>>, FALSE, FALSE, NoFault)
    /\ file = NoFile
    /\ previewData = NoPreview
    /\ readOnlyMode = FALSE

\* A handler of the stock screen: r is its result on w.
Handler(op, arg, r, o) ==
    /\ ops' = ops + 1
    /\ Commit(r.w)
    /\ last' = Outcome(op, arg, r.err, FALSE, o)
    /\ UNCHANGED <<user, migrationAttempted, file, previewData, readOnlyMode>>

HandleRestock ==
    /\ ops < MaxOps
    /\ \E item \in Range(stockItems), o \in Oracles(4, 2) :
         Handler("handleRestock", item, handleRestock(World, item, o), o)

HandleRestockAll ==
    /\ ops < MaxOps
    /\ \E o \in Oracles(4 * Len(stockItems), 2 * Len(stockItems)) :
         Handler("handleRestockAll", stockItems,
                 handleRestockAll(World, stockItems, o), o)

HandleResetAll ==
    /\ ops < MaxOps
    /\ \E o \in Oracles(4 * Len(stockItems), 2 * Len(stockItems)) :
         Handler("handleResetAll", stockItems,
                 handleResetAll(World, stockItems, o), o)

\* The product form gives a new product a fresh id and a current stock equal
\* to its initial stock (>= 0); an edited product keeps its id.
HandleProductSubmit ==
    /\ ops < MaxOps
    /\ \E name \in MainNames, init \in 0..MaxStock, o \in Oracles(4, 2) :
         \/ LET product == StockItem(uuid + 1, name, init, init)
                w == [World EXCEPT !.uid = uuid + 1]
            IN Handler("handleProductSubmit", product,
                       handleProductSubmit(w, product, FALSE, o), o)
         \/ \E old \in Range(stockItems), cur \in 0..MaxStock :
              LET product == [old EXCEPT !.name = name, !.currentStock = cur,
                                         !.initialStock = init]
              IN Handler("handleProductEdit", product,
                         handleProductSubmit(World, product, TRUE, o), o)

NextStock ==
    \/ HandleRestock
    \/ HandleRestockAll
    \/ HandleResetAll
    \/ HandleProductSubmit

SpecStock == InitStock /\ [][NextStock]_vars

----------------------------------------------------------------------------
(* The import screen: one file, its preview, the operator's choices and    *)
(* the commit.                                                             *)

\* The sheet of the model: the seven columns under French headers.
Columns ==
    <<<<"D", "a", "t", "e">>,
      <<"P", "r", "o", "d", "u", "i", "t">>,
      <<"Q", "u", "a", "n", "t", "i", "t", "e_acute">>,
      <<"M", "o", "n", "t", "a", "n", "t">>,
      <<"V", "e", "n", "d", "e", "u", "r">>,
      <<"C", "a", "i", "s", "s", "e">>,
      <<"T", "y", "p", "e">>>>

\* A row of the sheet, cell by cell in the order of Columns.
Row(date, product, quantity, amount, seller, register, type) ==
    <<date, product, quantity, amount, seller, register, type>>

\* 15 March 2024 as the spreadsheet counts days (45366).
SerialDay == DayNumber(2024, 3, 15) + ExcelEpoch

DateCells ==
    {Undefined, Number(SerialDay), Number(MaxDays + ExcelEpoch + 1),
     DateObject(TRUE, DayNumber(2024, 3, 15) * MinutesPerDay), InvalidDate,
     String(<<"1", "5", "/", "0", "3", "/", "2", "0", "2", "4">>), String(<<"0", "1", "/", "0", "1", "/", "2", "0", "2", "4">>),
     String(<<"3", "1", "/", "0", "2", "/", "2", "0", "2", "4">>), String(<<"1", "3", "/", "1", "3", "/", "2", "0", "2", "4">>),
     String(<<"2", "0", "2", "4", "-", "0", "3", "-", "1", "5">>), String(<<"2", "0", "2", "4", "-", "0", "2", "-", "3", "1">>),
     String(<<"2", "0", "2", "4", "-", "3", "-", "1", "5">>), String(<<"1", "5", "-", "0", "3", "-", "2", "0", "2", "4">>),
     String(<<"a", "b", "c">>)}

ProductCells == {Undefined, Text(""), Text("Coca-Cola"), Text("7")}

QuantityCells ==
    {Undefined, Number(0), Number(0 - 1), Number(1), Number(MaxQty),
     String(<<"0">>), String(<<"2">>), String(<<"-", "1">>),
     String(<<"a", "b", "c">>)}

\* 10.00, 10.009 and 10.01 euros; 1.00 and 1.01; a refund; the strings of
\* the French locale.
AmountCells ==
    {Undefined, Number(0), Number(10000), Number(10009), Number(10010),
     Number(1000), Number(1010), Number(0 - 5000),
     String(<<"0">>), String(<<"0", ",", "0", "0", " ", "euro">>), String(<<"0", ".", "0", "0">>),
     String(<<"1", "5", "4", ",", "0", "0", " ", "euro">>), String(<<"ndash", "4", "5", ",", "2", "0", " ", "euro">>),
     String(<<"a", "b", "c">>), String(<<"euro">>), String(<<" ">>),
     String(<<>>)}

OptionalCells(name) == {Undefined, Text(name), Text("Autre")}

\* The row every other row of the model is a variation of.
BaseRow ==
    Row(String(<<"1", "5", "/", "0", "3", "/", "2", "0", "2", "4">>), Text("Coca-Cola"), Number(MaxQty), Number(10000),
        Text("Alice"), Text("Caisse 1"), Text("Boissons"))

\* The rows: BaseRow with one cell replaced, and a row with two cells
\* missing.
Rows ==
    {[BaseRow EXCEPT ![1] = c] : c \in DateCells}
    \cup {[BaseRow EXCEPT ![2] = c] : c \in ProductCells}
    \cup {[BaseRow EXCEPT ![3] = c] : c \in QuantityCells}
    \cup {[BaseRow EXCEPT ![4] = c] : c \in AmountCells}
    \cup {[BaseRow EXCEPT ![5] = c] : c \in OptionalCells("Alice")}
    \cup {[BaseRow EXCEPT ![6] = c] : c \in OptionalCells("Caisse 1")}
    \cup {[BaseRow EXCEPT ![7] = c] : c \in OptionalCells("Boissons")}
    \cup {[BaseRow EXCEPT ![1] = Undefined, ![4] = Undefined]}

\* The rows of a sheet.
MaxRows == 2

\* The sheets: up to MaxRows rows, at most one of them not BaseRow.
Sheets ==
    UNION { {rows \in [1..n -> Rows] :
               Cardinality({i \in 1..n : rows[i] # BaseRow}) <= 1} :
            n \in 0..MaxRows }

\* The machines the import runs on: their offset from UTC in minutes and
\* their JavaScript engine.
Engines == [tz : {0 - 60, 0, 60}, lenient : BOOLEAN]

\* The files: every sheet on a strict engine at UTC, and the sheets of one
\* row, whatever its date cell, on every machine.
Files ==
    [data : [columns : {Columns}, rows : Sheets],
     engine : {[tz |-> 0, lenient |-> FALSE]}]
    \cup [data : [columns : {Columns},
                  rows : {<<[BaseRow EXCEPT ![1] = c]>> : c \in DateCells}],
          engine : Engines]

\* The sale a past import of BaseRow persisted (on a machine at UTC).
PersistedSale ==
    [id |-> 1, date |-> [y |-> 2024, m |-> 3, d |-> 15],
     productName |-> "Coca-Cola", quantity |-> MaxQty,
     unitPrice |-> UnitPrice(10000, MaxQty), totalAmount |-> 10000,
     seller |-> "Alice", register |-> "Caisse 1", category |-> "Boissons"]

\* The handlers the operator may run on the import screen.
MaxImportOps == 3

\* The operator chose a file.  Without a session the sales are in
\* localStorage; with one they are in the remote store, next to the stock.
InitPreview ==
    /\ file \in Files
    /\ previewData = NoPreview
    /\ user \in BOOLEAN
    /\ \E sales \in {<<>>, <<PersistedSale>>} :
         /\ localSales = IF user THEN <<>> ELSE sales
         /\ remoteSales = IF user THEN sales ELSE <<>>
    /\ localStock = <<>>
    /\ remoteStock = IF user THEN <<StockItem(2, "Coca-Cola", MaxStock, MaxStock)>>
                             ELSE <<>>
    /\ localMovements = <<>>
    /\ remoteMovements = <<>>
    /\ migrated = user
    /\ migrationAttempted = user
    /\ readOnly = FALSE
    /\ uuid = 2
    /\ ops = 0
    /\ last = Outcome("init", <<>>, FALSE, FALSE, NoFault)
    /\ readOnlyMode = FALSE

\* reader.onload of processExcelFile, import type 'sales'.  Remote site 1
\* is the read of getSales.
ProcessExcelFile ==
    /\ ops < MaxImportOps
    /\ \E o \in Oracles(1, 0) :
       \E preview \in {SalesPreview(World, file.data, file.engine, NetOk(o, 1))} :
         /\ previewData' = IF file.data.rows = <<>> THEN previewData
                           ELSE preview
         /\ uuid' = IF file.data.rows = <<>> THEN uuid
                    ELSE uuid + Len(preview.data)
         /\ ops' = ops + 1
         /\ last' = Outcome("processExcelFile", <<>>, FALSE,
                            user /\ ~NetOk(o, 1), o)
         /\ UNCHANGED <<file, localSales, localStock, localMovements,
                        readOnly, migrated, remoteSales, remoteStock,
                        remoteMovements, user, migrationAttempted,
                        readOnlyMode>>

\* The check box of a candidate of the preview.
ToggleDuplicateKeep ==
    /\ ops < MaxImportOps
    /\ \E index \in 1..Len(previewData.data) :
         /\ previewData' = toggleDuplicateKeep(previewData, index)
         /\ ops' = ops + 1
         /\ last' = Outcome("toggleDuplicateKeep", index, FALSE, FALSE, NoFault)
         /\ UNCHANGED <<file, localSales, localStock, localMovements,
                        readOnly, migrated, remoteSales, remoteStock,
                        remoteMovements, user, migrationAttempted, uuid,
                        readOnlyMode>>

\* The confirm button, when it is not disabled: handleImport.  Remote site
\* 1 is the insert.
ConfirmImport ==
    /\ ops < MaxImportOps
    /\ previewData # NoPreview
    /\ ~ConfirmDisabled(previewData)
    /\ \E o \in Oracles(1, 0) :
         \E r \in {handleImport(World, previewData, user /\ NetOk(o, 1))} :
            /\ Commit(r.w)
            /\ previewData' = r.preview
            /\ ops' = ops + 1
            /\ last' = Outcome("confirmImport", itemsToImport(previewData),
                               r.err, FALSE, o)
            /\ UNCHANGED <<file, user, migrationAttempted, readOnlyMode>>

\* The cancel button: resetImport.
ResetImport ==
    /\ ops < MaxImportOps
    /\ previewData # NoPreview
    /\ previewData' = NoPreview
    /\ ops' = ops + 1
    /\ last' = Outcome("resetImport", <<>>, FALSE, FALSE, NoFault)
    /\ UNCHANGED <<file, localSales, localStock, localMovements,
                   readOnly, migrated, remoteSales, remoteStock,
                   remoteMovements, user, migrationAttempted, uuid,
                   readOnlyMode>>

NextPreview ==
    \/ ProcessExcelFile
    \/ ToggleDuplicateKeep
    \/ ConfirmImport
    \/ ResetImport

SpecPreview == InitPreview /\ [][NextPreview]_vars

----------------------------------------------------------------------------
(* The round trip: the sales are exported to CSV and the file is imported  *)
(* again on the same machine.                                              *)

\* The sales held before the export: imported earlier, in March and in
\* May, of one unit or of MaxQty.
HeldSales ==
    {[id |-> 1, date |-> [y |-> 2024, m |-> mo, d |-> 15],
      productName |-> "Coca-Cola", quantity |-> q,
      unitPrice |-> UnitPrice(a, q), totalAmount |-> a,
      seller |-> v, register |-> "Caisse 1", category |-> "Boissons"] :
        mo \in {3, 5}, q \in {1, MaxQty}, a \in {10000, 10010},
        v \in {"Alice", NotSpecified}}

InitRoundTrip ==
    /\ file \in [data : {NoFile.data}, engine : Engines]
    /\ previewData = NoPreview
    /\ user \in BOOLEAN
    /\ \E sale \in HeldSales :
         /\ localSales = IF user THEN <<>> ELSE <<sale>>
         /\ remoteSales = IF user THEN <<sale>> ELSE <<>>
    /\ localStock = <<>>
    /\ remoteStock = <<>>
    /\ localMovements = <<>>
    /\ remoteMovements = <<>>
    /\ migrated = user
    /\ migrationAttempted = user
    /\ readOnly = FALSE
    /\ uuid = 1
    /\ ops = 0
    /\ last = Outcome("init", <<>>, FALSE, FALSE, NoFault)
    /\ readOnlyMode = FALSE

\* exportToZip(sales, filters, 'csv') on the sales the application loaded
\* (remote site 1 is the read of getSales); the operator then chooses the
\* file ventes.csv for the import.
ExportToZip ==
    /\ ops < MaxImportOps
    /\ file.data.rows = <<>>
    /\ \E o \in Oracles(1, 0) :
         /\ file' = [file EXCEPT
                       !.data = generateCSV(getSales(World, NetOk(o, 1)),
                                            file.engine.tz)]
         /\ ops' = ops + 1
         /\ last' = Outcome("exportToZip", <<>>, FALSE,
                            user /\ ~NetOk(o, 1), o)
         /\ UNCHANGED <<previewData, localSales, localStock, localMovements,
                        readOnly, migrated, remoteSales, remoteStock,
                        remoteMovements, user, migrationAttempted, uuid,
                        readOnlyMode>>

NextRoundTrip ==
    \/ ExportToZip
    \/ ProcessExcelFile

SpecRoundTrip == InitRoundTrip /\ [][NextRoundTrip]_vars

----------------------------------------------------------------------------
(* The headers of a sheet: the known spellings of the required fields,     *)
(* written in another case, with accents, spaces, underscores or hyphens,  *)
(* in any order, among other headers.                                      *)

\* toUpperCase of a character.
UpperChar(c) ==
    IF \E i \in 1..Len(LowerCase) : LowerCase[i] = c
    THEN UpperCase[CHOOSE i \in 1..Len(LowerCase) : LowerCase[i] = c]
    ELSE c

\* Ways of writing a spelling that leave it the same up to case, accents,
\* spaces, underscores and hyphens.
InCapitals(v) == [i \in 1..Len(v) |-> UpperChar(v[i])]
Circumflexed(v) == [i \in 1..Len(v) |-> IF v[i] = "e" THEN "e_circ" ELSE v[i]]
Separated(v, sep) == <<Head(v), sep>> \o Tail(v)
Padded(v) == <<" ">> \o v \o <<" ">>

Styles == {"plain", "capitals", "circumflexed", "underscore", "hyphen",
           "space", "padded"}

Styled(v, style) ==
    CASE style = "capitals" -> InCapitals(v)
      [] style = "circumflexed" -> Circumflexed(v)
      [] style = "underscore" -> Separated(v, "_")
      [] style = "hyphen" -> Separated(v, "-")
      [] style = "space" -> Separated(v, " ")
      [] style = "padded" -> Padded(v)
      [] OTHER -> v

\* The known spellings of each field, in every style.
Spellings ==
    [field \in DOMAIN fieldMappings |->
       {Styled(fieldMappings[field][k], style) :
          k \in 1..Len(fieldMappings[field]), style \in Styles}]

\* The header is a known spelling of the field, in one of the styles.
IsSpellingOf(header, field) == header \in Spellings[field]

\* The headers of the model: spellings of the required fields, a header
\* that is no field's, and the header of an unnamed column.
HeaderPool ==
    { Styled(fieldMappings.date[1], "capitals"),
      Styled(fieldMappings.date[3], "hyphen"),
      Styled(fieldMappings.product[4], "circumflexed"),
      Styled(fieldMappings.product[5], "padded"),
      Styled(fieldMappings.quantity[1], "capitals"),
      Styled(fieldMappings.amount[1], "space"),
      <<"C", "l", "i", "e", "n", "t">>,
      <<"U", "n", "n", "a", "m", "e", "d", ":", " ", "0">> }

\* The headers of a sheet.
MaxHeaders == 5

\* The header lists: the keys of the first row, each once, in any order.
HeaderLists ==
    UNION { {hs \in [1..n -> HeaderPool] :
               \A i, j \in 1..n : hs[i] = hs[j] => i = j} :
            n \in 4..MaxHeaders }

\* A row that has, in each column, a cell every field can be read from:
\* the number 45366 is a product name, a quantity, an amount and the
\* serial of 15 March 2024.
AnyFieldRow(n) == [k \in 1..n |-> Number(SerialDay)]

InitHeaders ==
    /\ \E hs \in HeaderLists :
         file = [data |-> [columns |-> hs, rows |-> <<AnyFieldRow(Len(hs))>>],
                 engine |-> [tz |-> 0, lenient |-> FALSE]]
    /\ previewData = NoPreview
    /\ user = FALSE
    /\ localSales = <<>>
    /\ remoteSales = <<>>
    /\ localStock = <<>>
    /\ remoteStock = <<>>
    /\ localMovements = <<>>
    /\ remoteMovements = <<>>
    /\ migrated = FALSE
    /\ migrationAttempted = FALSE
    /\ readOnly = FALSE
    /\ uuid = 1
    /\ ops = MaxImportOps - 1
    /\ last = Outcome("init", <<>>, FALSE, FALSE, NoFault)
    /\ readOnlyMode = FALSE

NextHeaders == ProcessExcelFile

SpecHeaders == InitHeaders /\ [][NextHeaders]_vars

----------------------------------------------------------------------------
(* A remote operation fails: the backend answers the request with an       *)
(* error (or the session has no user and the operation throws 'User not    *)
(* authenticated' itself).                                                 *)

InitRemoteError ==
    /\ file = NoFile
    /\ previewData = NoPreview
    /\ user = TRUE
    /\ localSales = <<>>
    /\ remoteSales = <<>>
    /\ localStock = <<>>
    /\ remoteStock = <<>>
    /\ localMovements = <<>>
    /\ remoteMovements = <<>>
    /\ migrated = TRUE
    /\ migrationAttempted = TRUE
    /\ readOnly = FALSE
    /\ uuid = 1
    /\ ops = 0
    /\ last = [op |-> "init", arg |-> NoMessage, request |-> 1,
               thrown |-> <<>>, attempts |-> 0]
    /\ readOnlyMode = FALSE

\* One call of a function of supabaseStorage whose request fails.  The
\* remote store is as before the call (the request that failed wrote
\* nothing).
RemoteFailure ==
    /\ ops < MaxOps
    /\ \E op \in RemoteOperations : \E request \in Requests(op) :
       \E error \in BackendErrors :
         /\ last' = [op |-> op, arg |-> error, request |-> request,
                     thrown |-> FailedCall(op, request, error).thrown,
                     attempts |-> FailedCall(op, request, error).attempts]
         /\ ops' = ops + 1
         /\ UNCHANGED <<file, previewData, localSales, localStock,
                        localMovements, readOnly, migrated, remoteSales,
                        remoteStock, remoteMovements, user,
                        migrationAttempted, uuid, readOnlyMode>>

NextRemoteError == RemoteFailure

SpecRemoteError == InitRemoteError /\ [][NextRemoteError]_vars

----------------------------------------------------------------------------
(* The Admin screen: the read-only button, and the operations of the       *)
(* facade the other screens run.                                           *)

\* toggleReadOnlyMode: setReadOnlyMode is the setter of the component's
\* state, useState(false).
ToggleReadOnlyMode ==
    /\ readOnlyMode' = ~readOnlyMode
    /\ last' = Outcome("toggleReadOnlyMode", ~readOnlyMode, FALSE, FALSE,
                       NoFault)
    /\ UNCHANGED <<localSales, localStock, localMovements, readOnly,
                   migrated, remoteSales, remoteStock, remoteMovements,
                   user, migrationAttempted, uuid, ops, file, previewData>>

NextAdmin ==
    \/ ToggleReadOnlyMode
    \/ SignIn
    \/ AddSale
    \/ UpdateStockItem
    \/ ClearAllData

SpecAdmin == Init /\ [][NextAdmin]_vars

----------------------------------------------------------------------------
(* The stock ledger: products created through the product form, sales     *)
(* recorded and imported without a session (the localStorage path), and    *)
(* the restock and reset handlers of the stock screen, with or without a   *)
(* session; no request and no write fails for a reason of the network or   *)
(* of localStorage.                                                        *)

\* The handlers run on a ledger.
MaxLedgerOps == 3

InitLedger ==
    /\ localSales = <<>>
    /\ localStock = <<>>
    /\ localMovements = <<>>
    /\ remoteSales = <<>>
    /\ remoteStock = <<>>
    /\ remoteMovements = <<>>
    /\ user \in BOOLEAN
    /\ migrated = user
    /\ migrationAttempted = user
    /\ readOnly = FALSE
    /\ uuid = 0
    /\ ops = 0
    /\ last = Outcome("init", <<>>, FALSE, FALSE, NoFault)
    /\ file = NoFile
    /\ previewData = NoPreview
    /\ readOnlyMode = FALSE

\* The product form, for a new product.
ProductCreated ==
    /\ ops < MaxLedgerOps
    /\ \E name \in MainNames, init \in 0..MaxStock :
       \E product \in {StockItem(uuid + 1, name, init, init)} :
         Handler("handleProductSubmit", product,
                 handleProductSubmit([World EXCEPT !.uid = uuid + 1], product,
                                     FALSE, NoFault),
                 NoFault)

\* A sale recorded on the sales screen, without a session: addSale goes
\* down its localStorage path.
SaleRecorded ==
    /\ ops < MaxLedgerOps
    /\ ~user
    /\ \E name \in MainNames, qty \in Quantities :
       \E sale \in {Sale(uuid + 1, name, qty)} :
         Handler("addSale", sale,
                 addSale([World EXCEPT !.uid = uuid + 1], sale, NoFault),
                 NoFault)

\* The batches of two sales, of one product or of two.
Pairs ==
    {<<Sale(uuid + 1, n1, q1), Sale(uuid + 2, n2, q2)>> :
        n1 \in MainNames, n2 \in MainNames,
        q1 \in Quantities, q2 \in Quantities}

\* A batch of sales handed to importSalesToSupabase of storage.ts.
SalesImported ==
    /\ ops < MaxLedgerOps
    /\ ~user
    /\ \E sales \in Pairs :
         Handler("importSales", sales,
                 importSalesToSupabase([World EXCEPT !.uid = uuid + Len(sales)],
                                       sales, NoFault),
                 NoFault)

Restocked ==
    /\ ops < MaxLedgerOps
    /\ \E item \in Range(stockItems) :
         Handler("handleRestock", item, handleRestock(World, item, NoFault),
                 NoFault)

AllRestocked ==
    /\ ops < MaxLedgerOps
    /\ Handler("handleRestockAll", stockItems,
               handleRestockAll(World, stockItems, NoFault), NoFault)

AllReset ==
    /\ ops < MaxLedgerOps
    /\ Handler("handleResetAll", stockItems,
               handleResetAll(World, stockItems, NoFault), NoFault)

NextLedger ==
    \/ ProductCreated
    \/ SaleRecorded
    \/ SalesImported
    \/ Restocked
    \/ AllRestocked
    \/ AllReset

SpecLedger == InitLedger /\ [][NextLedger]_vars

----------------------------------------------------------------------------
(* The migration attempted again.  initializeApp attempts the migration    *)
(* once in every session that starts with the migrated flag unset; once    *)
(* the remote store answers, such an attempt is made with no request       *)
(* failing for a reason of the network.                                    *)

\* A later attempt of the migration, the remote store reachable.
MigrateAgain ==
    /\ user
    /\ ~migrated
    /\ Commit(migrateDataToSupabase(World, NoFault).w)
    /\ last' = Outcome("migrateData", <<>>,
                       migrateDataToSupabase(World, NoFault).err, FALSE,
                       NoFault)
    /\ UNCHANGED <<user, migrationAttempted, ops, file, previewData,
                   readOnlyMode>>

NextRecovery ==
    \/ NextMigration
    \/ MigrateAgain

SpecRecovery ==
    Init /\ [][NextRecovery]_vars /\ WF_vars(MigrateAgain)

----------------------------------------------------------------------------
(* Properties *)

\* A step in which the handler op ran.
Ran(op) == ops' = ops + 1 /\ last'.op = op

RanOneOf(names) == ops' = ops + 1 /\ last'.op \in names

LocalStore == <<localSales, localStock, localMovements>>

RemoteStore == <<remoteSales, remoteStock, remoteMovements>>

\* The mutating operations of the facade.
MutatingOps ==
    {"saveSales", "addSale", "updateSale", "deleteSale", "saveStock",
     "addStockItem", "updateStockItem", "deleteStockItem", "addStockMovement",
     "importSales", "migrateData", "clearAllData"}

\* C2 as the specification states it.
\* While the read-only flag is set, every mutating
\* operation of the facade, the batch import and the migration included,
\* throws and leaves the local and the remote store unchanged.
CX_C2 ==
    [][(readOnly /\ RanOneOf(MutatingOps))
         => (last'.err /\ UNCHANGED <<LocalStore, RemoteStore>>)]_vars

\* C3 as the specification states it.
\* When initializeApp runs its migration (migrated flag not
\* set, every remote call answered), every sale, stock item and movement
\* that was in localStorage before is in the remote store afterwards.
CX_C3 ==
    [][(Ran("initializeApp") /\ last'.arg /\ ~migrated /\ last'.net)
         => /\ Ids(localSales) \subseteq Ids(remoteSales')
            /\ Ids(localStock) \subseteq Ids(remoteStock')
            /\ Ids(localMovements) \subseteq Ids(remoteMovements')]_vars

\* C4.  Migration gating: migrateDataToSupabase writes the remote store only
\* when the migrated flag is not set and the session is authenticated; it
\* sets the flag only when the migration went through (all local records
\* are then remote) and no error is thrown; when it throws, the flag is
\* as before; without a session it writes nothing, sets nothing and throws
\* nothing; once the flag is set a call writes nothing remote.
Thm_C4 ==
    [][Ran("migrateData")
         => /\ (RemoteStore' # RemoteStore) => (~migrated /\ user)
            /\ (migrated' /\ ~migrated)
                 => /\ ~last'.err
                    /\ user
                    /\ Ids(localSales) \subseteq Ids(remoteSales')
                    /\ Ids(localStock) \subseteq Ids(remoteStock')
                    /\ Ids(localMovements) \subseteq Ids(remoteMovements')
            /\ last'.err => (migrated' = migrated /\ ~migrated)
            /\ (~migrated' /\ ~last'.err) => UNCHANGED RemoteStore
            /\ ~user => (UNCHANGED <<RemoteStore, migrated>> /\ ~last'.err)
            /\ migrated
                 => (UNCHANGED <<RemoteStore, migrated>> /\ ~last'.err)
            /\ UNCHANGED LocalStore]_vars

\* C4's case: a migration of a non-empty localStorage went through and set
\* the flag.
Witness_C4 ==
    /\ last.op = "migrateData"
    /\ migrated
    /\ ~last.err
    /\ Len(remoteSales) > 0
    /\ Len(remoteStock) > 0
    /\ Len(remoteMovements) > 0

\* The facade writes that try the remote store first.
WriteOps ==
    {"addSale", "updateSale", "deleteSale", "addStockItem", "updateStockItem",
     "deleteStockItem", "addStockMovement"}

\* The write of a facade operation is in the local store.
AppliedLocally(op, arg) ==
    CASE op = "addSale" -> arg \in Range(localSales')
      [] op = "updateSale" ->
           \A i \in 1..Len(localSales') :
              localSales'[i].id = arg.id => localSales'[i] = arg
      [] op = "deleteSale" -> arg \notin Ids(localSales')
      [] op = "addStockItem" -> arg \in Range(localStock')
      [] op = "updateStockItem" ->
           \A i \in 1..Len(localStock') :
              localStock'[i].id = arg.id => localStock'[i] = arg
      [] op = "deleteStockItem" -> arg \notin Ids(localStock')
      [] op = "addStockMovement" -> arg \in Range(localMovements')
      [] OTHER -> TRUE

\* C5 as the specification states it.
\* Read-only mode off, a session, localStorage accepting its
\* writes: a facade write whose remote call fails returns without error,
\* applies the write to the local store and leaves the remote store
\* unchanged.
CX_C5 ==
    [][(RanOneOf(WriteOps) /\ ~readOnly /\ user /\ last'.fb /\ last'.disk)
         => /\ ~last'.err
            /\ AppliedLocally(last'.op, last'.arg)
            /\ UNCHANGED RemoteStore]_vars

\* The quantity of the 'out' movements of item pid recorded in this step
\* (their identifiers are fresh) in a movement log.
RECURSIVE OutQty(_, _, _)
OutQty(log, pid, after) ==
    IF log = <<>> THEN 0
    ELSE (IF Head(log).id > after /\ Head(log).type = "out"
             /\ Head(log).productId = pid
          THEN Head(log).quantity ELSE 0) + OutQty(Tail(log), pid, after)

\* The current stock of item pid in a stock list: a set, empty if absent.
CurrentOf(stock, pid) ==
    {stock[i].currentStock : i \in {j \in 1..Len(stock) : stock[j].id = pid}}

\* In this step the 'out' movements recorded in a store for each item equal
\* the decrease of the item's current stock in that store.
OutMatched(log, stock, stockAfter, after) ==
    \A pid \in {log[i].productId : i \in 1..Len(log)} :
       OutQty(log, pid, after) > 0
         => \E c \in CurrentOf(stock, pid) :
              CurrentOf(stockAfter, pid) = {c - OutQty(log, pid, after)}

\* C6 as the specification states it.
\* Whatever remote calls and local writes fail, the 'out'
\* movements a sale or an import records in a store are matched by a
\* decrease of the same quantity of the item's current stock in that store.
CX_C6 ==
    [][RanOneOf({"addSale", "importSales", "handleImport"})
         => /\ OutMatched(localMovements', localStock, localStock', uuid)
            /\ OutMatched(remoteMovements', remoteStock, remoteStock', uuid)]_vars

\* The product groups of a batch that match an item of a stock list.
MatchedKeys(sales, stock) ==
    {k \in Range(FirstSeen(sales, <<>>)) :
        \E i \in 1..Len(stock) : toLowerCase(stock[i].name) = k}

\* C7 as the specification states it.
\* When the operator confirms a sales import and the remote
\* insert fails or there is no session, the kept sales are appended to the
\* local sales and the batch is reconciled once against the local stock:
\* one new movement per matched product.
CX_C7 ==
    [][(Ran("handleImport") /\ last'.err)
         => /\ localSales' = localSales \o last'.arg
            /\ Len(localMovements')
                 = Len(localMovements)
                   + Cardinality(MatchedKeys(last'.arg, localStock))]_vars

----------------------------------------------------------------------------
(* The batch reconciler (SpecImport) *)

\* The step imported a batch and the reconciler ran on localStorage alone:
\* no session, every localStorage write accepted.
ReconciledLocally == Ran("importSales") /\ ~user /\ last'.disk

\* The step imported a batch and the reconciler ran: no session, or the
\* remote insert of the batch failed.
Reconciled == Ran("importSales") /\ (~user \/ last'.fb)

\* The elements a log gained in this step.
Appended(log, logAfter) == SubSeq(logAfter, Len(log) + 1, Len(logAfter))

\* The quantity a batch sells of the products named like an item,
\* case-insensitively.
SoldOf(sales, item) ==
    SumQty(SelectSeq(sales, LAMBDA s : MatchesName(item, s.productName)))

\* C1 as the specification states it.
\* After a batch is reconciled on localStorage, every stock
\* item of which the batch sells Q > 0 units (names compared
\* case-insensitively) has its current stock lowered by Q, and exactly one
\* new 'out' movement, of quantity Q, references it.
CX_C1 ==
    [][ReconciledLocally
         => LET batch == last'.arg
                new == Appended(localMovements, localMovements')
            IN \A i \in 1..Len(localStock) :
                 LET Q == SoldOf(batch, localStock[i])
                     mine == SelectSeq(new,
                               LAMBDA m : m.productId = localStock[i].id)
                 IN Q > 0
                      => /\ Len(localStock') = Len(localStock)
                         /\ localStock'[i].currentStock
                              = localStock[i].currentStock - Q
                         /\ Len(mine) = 1
                         /\ mine[1].type = "out"
                         /\ mine[1].quantity = Q]_vars

\* The lower-cased name of the item a movement references.
KeyOf(stock, pid) ==
    {toLowerCase(stock[i].name) : i \in {j \in 1..Len(stock) : stock[j].id = pid}}

\* C8 as the specification states it.
\* The movements of a reconciled batch are appended in the
\* order in which their product groups are first seen in the batch.
CX_C8 ==
    [][ReconciledLocally
         => LET batch == last'.arg
                new == Appended(localMovements, localMovements')
                keys == SelectSeq(FirstSeen(batch, <<>>),
                                  LAMBDA k : k \in MatchedKeys(batch, localStock))
            IN /\ Len(new) = Len(keys)
               /\ \A j \in 1..Len(new) :
                    KeyOf(localStock, new[j].productId) = {keys[j]}]_vars

\* The movements recorded in this step, in either store: their identifiers
\* are fresh.  (A movement that falls back to localStorage is appended to a
\* copy of the log it was read from, so a movement of the step can be in
\* both logs.)
Recorded ==
    {m \in Range(localMovements') \cup Range(remoteMovements') : m.id > uuid}

\* C9.  A product group of a reconciled batch whose lower-cased name matches
\* no stock item is skipped: no error is thrown; every movement the step
\* records, in either store, references an item named like a group of the
\* batch and carries that group's total and size; an item named like no
\* group of the batch is left as it was; the remote stock is not touched.
\* The matched groups are processed as usual: none has more than one
\* movement, and when every localStorage write is accepted each has exactly
\* one and, without a session, the first item so named has lost the group's
\* total.
Thm_C9 ==
    [][Reconciled
         => LET batch == last'.arg
                keys == MatchedKeys(batch, localStock)
            IN /\ ~last'.err
               /\ \A m \in Recorded :
                    \E k \in keys :
                       /\ KeyOf(localStock, m.productId) = {k}
                       /\ m.type = "out"
                       /\ m.quantity = SumQty(GroupSales(batch, k))
                       /\ m.reason
                            = [kind |-> "Import", n |-> Len(GroupSales(batch, k))]
                       /\ \A h \in Recorded : h.productId = m.productId => h = m
               /\ \A i \in 1..Len(localStock') :
                    toLowerCase(localStock'[i].name) \notin keys
                      => localStock'[i] \in Range(localStock)
               /\ Len(localStock') = Len(localStock)
               /\ remoteStock' = remoteStock
               /\ last'.disk => Cardinality(Recorded) = Cardinality(keys)
               /\ (last'.disk /\ ~user)
                    => \A k \in keys :
                         LET i == FindByName(localStock, k)
                         IN localStock'[i].currentStock
                              = localStock[i].currentStock
                                  - SumQty(GroupSales(batch, k))]_vars

\* C9's case: a batch with a group that matches no stock item and a group
\* that matches one was reconciled on localStorage; one movement was added.
Witness_C9 ==
    /\ last.op = "importSales"
    /\ ~user
    /\ last.disk
    /\ ~last.err
    /\ Len(localMovements) = 1
    /\ \E k \in Range(FirstSeen(last.arg, <<>>)) :
          \A i \in 1..Len(localStock) : toLowerCase(localStock[i].name) # k
    /\ \E k \in Range(FirstSeen(last.arg, <<>>)) :
          \E i \in 1..Len(localStock) : toLowerCase(localStock[i].name) = k

\* The reconciler run on a batch, without a session and without faults,
\* from the stock of the remote store.
FallbackPath(sales) ==
    updateStockFromSales(
        [World EXCEPT !.auth = FALSE, !.lk = remoteStock, !.lm = <<>>,
                      !.uid = uuid + Len(sales)],
        sales, NoFault, 3, 2).w

\* C10 as the specification states it.
\* From the same stock and for the same batch, the trigger
\* path (the batch inserted in the remote store) and the fallback path (the
\* reconciler on localStorage) give every item the same current stock and
\* the same total 'out' quantity.
CX_C10 ==
    [][(Ran("importSales") /\ user /\ ~last'.fb /\ last'.net)
         => LET f == FallbackPath(last'.arg)
            IN \A pid \in Ids(remoteStock) :
                 /\ CurrentOf(remoteStock', pid) = CurrentOf(f.lk, pid)
                 /\ OutQty(Appended(remoteMovements, remoteMovements'),
                           pid, uuid)
                      = OutQty(f.lm, pid, uuid)]_vars

----------------------------------------------------------------------------
(* Frame of deleteSale; the movement log; stock names (Spec) *)

\* C11 as the specification states it.
\* A deleteSale step removes only the sale with the given id: in each store
\* the sales are as before, or as before without that sale; the stock and
\* the movement log of both stores are unchanged.
CX_C11 ==
    [][Ran("deleteSale")
         => /\ localSales' \in {localSales, RemoveById(localSales, last'.arg)}
            /\ remoteSales' \in {remoteSales, RemoveById(remoteSales, last'.arg)}
            /\ UNCHANGED <<localStock, remoteStock,
                           localMovements, remoteMovements>>]_vars

\* C12 as the specification states it.
\* The movement log is append-only: a movement that is in a store before a
\* step is in that store, with all its fields, after it.
CX_C12 ==
    [][/\ Range(localMovements) \subseteq Range(localMovements')
       /\ Range(remoteMovements) \subseteq Range(remoteMovements')]_vars

\* C13 as the specification states it.
\* Every movement recorded, in either store, has a quantity > 0.
CX_C13 ==
    \A m \in Range(localMovements) \cup Range(remoteMovements) : m.quantity > 0

\* C15 as the specification states it.  Stock item names are unique per
\* user: in every reachable state no two items of the local stock share a
\* name and no two items of the remote stock share a name.
CX_C15 == NamesUnique(localStock) /\ NamesUnique(remoteStock)

----------------------------------------------------------------------------
(* The import screen: the validator, the duplicate detector, the preview.  *)

\* The Sale records the validator emitted for the sheet on screen.
Emitted == [i \in 1..Len(previewData.data) |-> previewData.data[i].item]

\* C14 as the specification states it.  Every Sale record that
\* validateSalesData emits has a quantity above zero and a unit price of
\* zero or more, whatever the row holds.
CX_C14 ==
    \A i \in 1..Len(Emitted) :
       /\ Emitted[i].quantity > 0
       /\ Emitted[i].unitPrice.num >= 0
       /\ Emitted[i].unitPrice.den > 0

\* The sales the application holds for the operator: those of the remote
\* store with a session, those of localStorage without.
Persisted == IF user THEN remoteSales ELSE localSales

\* Two sales agree on the six fields compared exactly and their totals
\* differ by less than one cent.
Matches(existingSale, newSale) ==
    /\ existingSale.date = newSale.date
    /\ existingSale.productName = newSale.productName
    /\ existingSale.quantity = newSale.quantity
    /\ Abs(existingSale.totalAmount - newSale.totalAmount) < Tolerance
    /\ existingSale.seller = newSale.seller
    /\ existingSale.register = newSale.register
    /\ existingSale.category = newSale.category

\* C16 as the specification states it.  After a sheet is processed, a
\* candidate is flagged duplicate if and only if some persisted sale has
\* its date, product, quantity, seller, register and category and a total
\* less than 0.01 away from its own; the other candidates play no part.
CX_C16 ==
    [][Ran("processExcelFile") /\ file.data.rows # <<>> =>
         \A i \in 1..Len(previewData'.data) :
            previewData'.data[i].isDuplicate
              <=> \E k \in 1..Len(Persisted) :
                     Matches(Persisted[k], previewData'.data[i].item)]_vars

\* The candidates of a preview whose box is ticked, in their order.
KeptOf(preview) ==
    SelectSeq(preview.data, LAMBDA info : info.shouldKeep)

\* The step processed a sheet with rows and set a new preview.
NewPreview == Ran("processExcelFile") /\ file.data.rows # <<>>

\* C17.  Each candidate of a new preview has shouldKeep = ~isDuplicate.
\* While the preview is on screen its candidates and their isDuplicate stay
\* as they are, and shouldKeep of a candidate changes only in a toggle of
\* that candidate.  A commit sends the candidates whose shouldKeep is true,
\* each once and in their order, and no other: when the insert succeeds the
\* remote sales grow by exactly these, when it fails no store changes.
Thm_C17 ==
    [][/\ NewPreview =>
            \A i \in 1..Len(previewData'.data) :
               previewData'.data[i].shouldKeep
                 = ~previewData'.data[i].isDuplicate
       /\ ~NewPreview /\ previewData' # NoPreview =>
            /\ Len(previewData'.data) = Len(previewData.data)
            /\ \A i \in 1..Len(previewData.data) :
                 /\ previewData'.data[i].item = previewData.data[i].item
                 /\ previewData'.data[i].isDuplicate
                      = previewData.data[i].isDuplicate
                 /\ previewData'.data[i].shouldKeep
                      # previewData.data[i].shouldKeep
                    => Ran("toggleDuplicateKeep") /\ last'.arg = i
       /\ Ran("toggleDuplicateKeep") =>
            previewData'.data[last'.arg].shouldKeep
              = ~previewData.data[last'.arg].shouldKeep
       /\ Ran("confirmImport") =>
            /\ last'.arg = [i \in 1..Len(KeptOf(previewData)) |->
                              KeptOf(previewData)[i].item]
            /\ localSales' = localSales
            /\ last'.err => remoteSales' = remoteSales
            /\ ~last'.err =>
                 /\ Len(remoteSales') = Len(remoteSales) + Len(last'.arg)
                 /\ Ids(remoteSales') = Ids(remoteSales) \cup Ids(last'.arg)
                 /\ Cardinality(Ids(remoteSales'))
                      = Cardinality(Ids(remoteSales)) + Len(last'.arg)
                 /\ \A k \in 1..Len(last'.arg) :
                      remoteSales'[Len(remoteSales) + k]
                        = StoredSale(last'.arg[k])
                 /\ previewData' = NoPreview]_vars

\* A commit went through whose only candidate was a duplicate that the
\* operator had ticked: the store now holds the sale twice.
Witness_C17 ==
    /\ last.op = "confirmImport"
    /\ ~last.err
    /\ Len(last.arg) = 1
    /\ \E k \in 1..Len(remoteSales) :
         /\ remoteSales[k].id # last.arg[1].id
         /\ SameSale(remoteSales[k], last.arg[1])

\* C18.  While the preview holds invalid rows, or no candidate is kept, no
\* step is a commit and no step writes a sale, a stock item or a movement
\* to either store.
Thm_C18 ==
    [][Len(previewData.invalidRows) > 0 \/ KeptOf(previewData) = <<>> =>
         /\ ~Ran("confirmImport")
         /\ LocalStore' = LocalStore
         /\ RemoteStore' = RemoteStore]_vars

\* The preview holds an invalid row next to a candidate that the operator
\* ticked after unticking it: only the invalid row disables the commit.
Witness_C18 ==
    /\ last.op = "toggleDuplicateKeep"
    /\ ops = MaxImportOps
    /\ Len(previewData.invalidRows) > 0
    /\ KeptOf(previewData) # <<>>

\* The cells of a row under the required columns, and the message that
\* names each.
RequiredCells ==
    [date |-> 1, product |-> 2, quantity |-> 3, amount |-> 4]

MissingMessage ==
    [date |-> "Date manquante", product |-> "Produit manquant",
     quantity |-> "Quantite manquante", amount |-> "Montant manquant"]

\* The row has no value under the column of a required field.
Lacks(row, field) ==
    \/ row[RequiredCells[field]].t = "undefined"
    \/ row[RequiredCells[field]].t = "text" /\ row[RequiredCells[field]].s = ""

\* The dates of the sheets that are dates of the calendar.
ValidDateCells ==
    {Number(SerialDay),
     DateObject(TRUE, DayNumber(2024, 3, 15) * MinutesPerDay),
     String(<<"1", "5", "/", "0", "3", "/", "2", "0", "2", "4">>),
     String(<<"0", "1", "/", "0", "1", "/", "2", "0", "2", "4">>),
     String(<<"2", "0", "2", "4", "-", "0", "3", "-", "1", "5">>),
     String(<<"1", "5", "-", "0", "3", "-", "2", "0", "2", "4">>)}

\* A quantity above zero and an amount of zero or more, as numbers.
ValidNumbers(row) ==
    /\ row[3].t = "number" /\ row[3].v > 0
    /\ row[4].t = "number" /\ row[4].v >= 0

\* A row with every required field present and valid.
ValidRow(row) ==
    /\ \A f \in DOMAIN RequiredCells : ~Lacks(row, f)
    /\ row[1] \in ValidDateCells
    /\ ValidNumbers(row)

\* The rows of the sheet that have an error entry: the entry of the row of
\* index i names row i + 1.
ErrorEntries(i) ==
    {j \in 1..Len(previewData.invalidRows) :
        previewData.invalidRows[j].row = i + 1}

\* The place of the record of row i among the records: the rows up to it
\* that have no error entry.
RecordIndex(i) == Cardinality({r \in 1..i : ErrorEntries(r) = {}})

\* The first row has a cell under every required column, so every required
\* column is mapped.
RequiredMapped ==
    /\ file.data.rows # <<>>
    /\ \A f \in DOMAIN RequiredCells :
          file.data.rows[1][RequiredCells[f]].t # "undefined"

\* C19 as the specification states it.  When the required columns are
\* mapped, a row with every required field present and valid has no error
\* entry and its record among the records; a row that lacks a required
\* field has one error entry, which names the field; and the records and
\* the error entries together are as many as the rows, so that no row has
\* both.
CX_C19 ==
    previewData # NoPreview /\ RequiredMapped =>
      /\ Len(previewData.data) + Len(previewData.invalidRows)
           = Len(file.data.rows)
      /\ \A i \in 1..Len(file.data.rows) :
           /\ Cardinality(ErrorEntries(i)) <= 1
           /\ ValidRow(file.data.rows[i]) =>
                /\ ErrorEntries(i) = {}
                /\ RecordIndex(i) <= Len(previewData.data)
                /\ previewData.data[RecordIndex(i)].item.productName
                     = file.data.rows[i][2].s
           /\ \A f \in DOMAIN RequiredCells :
                Lacks(file.data.rows[i], f) =>
                  \E j \in ErrorEntries(i) :
                     \E k \in 1..Len(previewData.invalidRows[j].errors) :
                        previewData.invalidRows[j].errors[k]
                          = MissingMessage[f]

\* The date cells of the sheets that are no date of the calendar: a string
\* without a date, an invalid Date object, a day that the month does not
\* have, a month that the year does not have.
NoDateStrings == {String(<<"a", "b", "c">>)}

OutOfRangeDates ==
    {String(<<"3", "1", "/", "0", "2", "/", "2", "0", "2", "4">>),
     String(<<"1", "3", "/", "1", "3", "/", "2", "0", "2", "4">>),
     String(<<"2", "0", "2", "4", "-", "0", "2", "-", "3", "1">>)}

UnresolvableDateCells == NoDateStrings \cup {InvalidDate} \cup OutOfRangeDates

\* C20 as the specification states it.  A row whose date cannot be
\* resolved to a date of the calendar has an error entry and no record.
CX_C20 ==
    previewData # NoPreview /\ RequiredMapped =>
      /\ Len(previewData.data) + Len(previewData.invalidRows)
           = Len(file.data.rows)
      /\ \A i \in 1..Len(file.data.rows) :
           file.data.rows[i][1] \in UnresolvableDateCells =>
             Cardinality(ErrorEntries(i)) = 1

\* The date strings of the sheets that name a day, a month and a year, each
\* with the calendar date it names: day first with slashes, day first with
\* hyphens, year first when the first segment has four digits.
NamedDates ==
    {<<String(<<"1", "5", "/", "0", "3", "/", "2", "0", "2", "4">>),
       [y |-> 2024, m |-> 3, d |-> 15]>>,
     <<String(<<"0", "1", "/", "0", "1", "/", "2", "0", "2", "4">>),
       [y |-> 2024, m |-> 1, d |-> 1]>>,
     <<String(<<"1", "5", "-", "0", "3", "-", "2", "0", "2", "4">>),
       [y |-> 2024, m |-> 3, d |-> 15]>>,
     <<String(<<"2", "0", "2", "4", "-", "0", "3", "-", "1", "5">>),
       [y |-> 2024, m |-> 3, d |-> 15]>>}

\* C21 as the specification states it.  The record of a row whose date is
\* D/M/Y, D-M-Y or Y-M-D carries the calendar date of day D, month M, year
\* Y, whatever the time zone of the machine that runs the import.
CX_C21 ==
    previewData # NoPreview /\ RequiredMapped =>
      \A i \in 1..Len(file.data.rows) : \A p \in NamedDates :
         file.data.rows[i][1] = p[1] /\ ErrorEntries(i) = {} =>
           /\ RecordIndex(i) <= Len(previewData.data)
           /\ previewData.data[RecordIndex(i)].item.date = p[2]

\* C22 as the specification states it.  When the file that the export
\* wrote is imported again, every sale held has a candidate flagged as its
\* duplicate: same date, product, quantity, seller, register and category,
\* and a total within 0.01.
CX_C22 ==
    last.op = "processExcelFile" /\ file.data.rows # <<>> =>
      \A k \in 1..Len(Persisted) :
         \E i \in 1..Len(previewData.data) :
            /\ previewData.data[i].isDuplicate
            /\ Matches(Persisted[k], previewData.data[i].item)

----------------------------------------------------------------------------
(* The header normalizer *)

\* The mapping normalizeHeaders gives for the headers of the file.
HeaderMapping ==
    normalizeHeaders(file.data.columns, ObjectKeys(file.data.rows[1]))

\* The headers hold, for each required field, one of its known spellings.
SpellsRequired ==
    \A r \in 1..Len(requiredFields) :
       \E k \in 1..Len(file.data.columns) :
          IsSpellingOf(file.data.columns[k], requiredFields[r])

\* C23.  When the headers hold, for each required field, a known spelling
\* of it up to case, accents, spaces, underscores and hyphens, in any order
\* and among other headers, the mapping has a column for each required
\* field, and the import of the sheet reports no missing column.
Thm_C23 ==
    file.data.rows # <<>> /\ SpellsRequired =>
      /\ \A r \in 1..Len(requiredFields) :
            HeaderMapping[requiredFields[r]] # 0
      /\ last.op = "processExcelFile" =>
            /\ previewData.invalidRows = <<>>
            /\ Len(previewData.data) = 1

\* The headers of a sheet in another order than the fields', with a header
\* that is no field's, were mapped and the row under them validated.
Witness_C23 ==
    /\ last.op = "processExcelFile"
    /\ SpellsRequired
    /\ Len(file.data.columns) = MaxHeaders
    /\ file.data.columns[1] = <<"C", "l", "i", "e", "n", "t">>
    /\ IsSpellingOf(file.data.columns[2], "amount")
    /\ IsSpellingOf(file.data.columns[MaxHeaders], "product")
    /\ Len(previewData.data) = 1

\* The original header each field is read from under a mapping of the
\* columns (no header, <<>>, for a field without a column).
SelectedHeaders(columns, mapping) ==
    [f \in DOMAIN mapping |->
       IF mapping[f] = 0 THEN <<>> ELSE columns[mapping[f]]]

\* The mapping from field to original header of a header list.
MappingOf(columns) ==
    SelectedHeaders(columns,
                    normalizeHeaders(columns, [k \in 1..Len(columns) |-> k]))

\* The columns in another order.
Reordered(columns, p) == [k \in 1..Len(columns) |-> columns[p[k]]]

\* The headers a mapping selected, in the order of the sheet.
SelectedList(columns) ==
    SelectSeq(columns,
              LAMBDA h : \E f \in DOMAIN NoMapping : MappingOf(columns)[f] = h)

\* C24 as the specification states it.  The same headers in any other
\* order give the same mapping from field to original header, and the
\* headers a mapping selected give that mapping again.
CX_C24 ==
    last.op = "processExcelFile" /\ file.data.rows # <<>> =>
      /\ \A p \in Permutations(1..Len(file.data.columns)) :
            MappingOf(Reordered(file.data.columns, p))
              = MappingOf(file.data.columns)
      /\ MappingOf(SelectedList(file.data.columns))
           = MappingOf(file.data.columns)

----------------------------------------------------------------------------
(* The errors of the remote operations *)

\* The backend message of the failed call holds the text.
Holds(text) ==
    last.arg.message.t = "string" /\ IncludesString(last.arg.message.s, text)

\* C25.  A remote operation that fails throws one Error to its caller, its
\* message being 'session expired' when the backend message holds 'JWT',
\* else 'access denied' when it holds 'Row Level Security', else 'already
\* exists' when it holds 'duplicate key', else the foreign-key message when
\* it holds 'foreign key', else the backend message itself, and the generic
\* message when there is no backend message; the request was sent once.
Thm_C25 ==
    last.op \in RemoteOperations =>
      /\ Len(last.thrown) = 1
      /\ last.attempts = 1
      /\ last.thrown[1].message.t = "string"
      /\ last.thrown[1].message.s =
           (CASE ~Truthy(last.arg.message) -> Unexpected
              [] Holds(KeyJWT) -> SessionExpired
              [] Holds(KeyRLS) /\ ~Holds(KeyJWT) -> AccessDenied
              [] Holds(KeyDuplicate) /\ ~Holds(KeyJWT) /\ ~Holds(KeyRLS)
                   -> AlreadyExists
              [] Holds(KeyForeign) /\ ~Holds(KeyJWT) /\ ~Holds(KeyRLS)
                   /\ ~Holds(KeyDuplicate) -> Referenced
              [] OTHER -> last.arg.message.s)

\* The migration failed in the insert of the sales on a message that holds
\* both 'duplicate key' and 'foreign key'.
Witness_C25 ==
    /\ last.op = "migrateLocalStorageToSupabase"
    /\ last.request = 1
    /\ Holds(KeyDuplicate)
    /\ Holds(KeyForeign)
    /\ last.thrown = <<ErrorOf(AlreadyExists)>>

----------------------------------------------------------------------------
(* The amount parser *)

\* The amount cell of row i of the sheet.
AmountCell(i) == file.data.rows[i][RequiredCells.amount]

\* The amounts written '<int>,<2 digits> euro', with and without the long
\* dash, each with its value in cents.
EuroAmounts ==
    {<<String(<<"1", "5", "4", ",", "0", "0", " ", "euro">>), 15400>>,
     <<String(<<"ndash", "4", "5", ",", "2", "0", " ", "euro">>), 0 - 4520>>}

\* A string parseFloat reads no number from, once cleaned.
Unparsable(cell) ==
    cell.t = "string" /\ isNaN(parseFloat(CleanAmount(cell.s)))

\* Row i has an error entry with the message.
Reported(i, message) ==
    \E j \in ErrorEntries(i) :
       \E k \in 1..Len(previewData.invalidRows[j].errors) :
          previewData.invalidRows[j].errors[k] = message

\* C26 as the specification states it, for the strings: a string that does
\* not parse as a number yields 0 and its row is rejected with the
\* invalid-amount error, unless the trimmed string is '0', '0,00' or
\* '0,00 euro'.
CX_C26 ==
    previewData # NoPreview /\ RequiredMapped =>
      \A i \in 1..Len(file.data.rows) :
         Unparsable(AmountCell(i)) =>
           /\ parseAmount(AmountCell(i)) = Number(0)
           /\ trim(AmountCell(i).s) \notin ZeroLiterals =>
                Reported(i, "Montant invalide")

\* C26, amended.  A number is returned unchanged and is the total of the
\* record of its row; '154,00 euro' and the same form after a long dash
\* are read as 154.00 and -45.20 and are the total of the record; a string
\* that is not empty and does not parse as a number yields 0 and its row
\* is rejected with the invalid-amount error (none of them is '0', '0,00'
\* or '0,00 euro'); the empty string yields 0 and its row is rejected as
\* lacking an amount.
Thm_C26 ==
    previewData # NoPreview /\ RequiredMapped =>
      \A i \in 1..Len(file.data.rows) :
         /\ AmountCell(i).t = "number" =>
              /\ parseAmount(AmountCell(i)) = AmountCell(i)
              /\ ErrorEntries(i) = {} =>
                   previewData.data[RecordIndex(i)].item.totalAmount
                     = AmountCell(i).v
         /\ \A p \in EuroAmounts :
              file.data.rows[i] = [BaseRow EXCEPT ![4] = p[1]] =>
                /\ ErrorEntries(i) = {}
                /\ previewData.data[RecordIndex(i)].item.totalAmount
                     = 10 * p[2]
         /\ Unparsable(AmountCell(i)) =>
              /\ parseAmount(AmountCell(i)) = Number(0)
              /\ AmountCell(i).s # <<>> =>
                   /\ trim(AmountCell(i).s) \notin ZeroLiterals
                   /\ Reported(i, "Montant invalide")
              /\ AmountCell(i).s = <<>> =>
                   /\ Reported(i, "Montant manquant")
                   /\ ~Reported(i, "Montant invalide")

\* A sheet with a refund written with the long dash was validated and the
\* refund is the total of the record of its row.
Witness_C26 ==
    /\ previewData # NoPreview
    /\ RequiredMapped
    /\ \E i \in 1..Len(file.data.rows) :
         /\ AmountCell(i) = String(<<"ndash", "4", "5", ",", "2", "0", " ", "euro">>)
         /\ ErrorEntries(i) = {}
         /\ previewData.data[RecordIndex(i)].item.totalAmount = 0 - 45200

----------------------------------------------------------------------------
(* The read-only button of the Admin screen *)

\* C27 as the specification states it.  The button of the Admin screen and
\* the persisted flag that isReadOnlyMode reads have the same value, and a
\* mutating operation of the facade run after the button activated the
\* mode throws.
CX_C27 ==
    /\ readOnlyMode = readOnly
    /\ readOnlyMode /\ last.op \in MutatingOps => last.err

----------------------------------------------------------------------------
(* Reads after writes through the facade *)

\* C28 as the specification states it.  In a session, once addSale has
\* returned without an error, getSales returns a list that holds the sale,
\* whether its remote read succeeds or fails; likewise addStockItem and
\* getStock, addStockMovement and getStockMovements.
CX_C28 ==
    user /\ ~last.err =>
      \A net \in BOOLEAN :
         /\ last.op = "addSale" => last.arg \in Range(getSales(World, net))
         /\ last.op = "addStockItem" =>
              last.arg \in Range(getStock(World, net))
         /\ last.op = "addStockMovement" =>
              last.arg \in Range(getStockMovements(World, net))

----------------------------------------------------------------------------
(* The stock ledger *)

\* The movements of a type recorded for a product, as getStockMovements
\* returns them.
MovementsOf(id, type) ==
    SelectSeq(getStockMovements(World, TRUE),
              LAMBDA m : m.productId = id /\ m.type = type)

\* C29.  For every stock item, the current stock is the sum of the
\* quantities of its 'in' movements less the sum of the quantities of its
\* 'out' movements.
Thm_C29 ==
    \A i \in 1..Len(stockItems) :
       stockItems[i].currentStock
         = SumQty(MovementsOf(stockItems[i].id, "in"))
           - SumQty(MovementsOf(stockItems[i].id, "out"))

\* A product was created, sold below zero and restocked.
Witness_C29 ==
    /\ last.op \in {"handleRestock", "handleRestockAll", "handleResetAll"}
    /\ \E i \in 1..Len(stockItems) :
         /\ Len(MovementsOf(stockItems[i].id, "in")) = 2
         /\ Len(MovementsOf(stockItems[i].id, "out")) = 1
         /\ SumQty(MovementsOf(stockItems[i].id, "out"))
              > stockItems[i].initialStock

----------------------------------------------------------------------------
(* The migration after a failed attempt *)

\* No two rows of a table have the same id.
EachOnce(rows) == \A i, j \in 1..Len(rows) : rows[i].id = rows[j].id => i = j

\* Part of the local data is in the remote store and the migrated flag is
\* not set: an attempt of the migration failed after its first insert.
PartlyMigrated ==
    /\ user
    /\ ~migrated
    /\ \E i \in 1..Len(localSales) : localSales[i].id \in Ids(remoteSales)

====
